---- MODULE Spec2Model ----
(***************************************************************************)
(* Hybrid synchronisation engine of the-shared-table:                     *)
(*   useSupabaseSession (connection supervisor + session store),          *)
(*   useSupabaseRealtime (push channel), usePolling (poll scheduler) and  *)
(*   utils/polling (merge functions, interval and backoff).               *)
(*                                                                         *)
(* Spec        : the control plane (mode switching, channel, poll loop).  *)
(* SpecRefresh : the control plane with the UI calling refetch.           *)
(* SpecProps   : the control plane under changing options (session id,    *)
(*               topics / questions), the clock standing still.           *)
(* SpecData    : the data plane (push events and poll results applied to  *)
(*               the session snapshot).                                   *)
(* SpecMerge   : the pure merge functions applied to drawn inputs.        *)
(*                                                                         *)
(* A React commit (render + effect cleanups + effect set-ups) that a      *)
(* state update causes is part of the action that made the update.        *)
(***************************************************************************)
EXTENDS Integers, Sequences, FiniteSets, TLC

\* ------------------------------------------------------------------ bounds
StartTime == 1000        \* Date.now() at mount; any value >= ERROR_DEBOUNCE_MS
MaxTime == 1300          \* the clock stops advancing here
MaxErrors == 6           \* cap on consecutiveErrorsRef (poll errors)
MaxPushErrors == 4       \* cap on errorCountRef (push errors)
MaxInflight == 2         \* poll fetches in flight at once
MaxTimers == 3           \* timer handles
MaxChanges == 2          \* changes committed by the remote store
MaxFetches == 1          \* loads / polls in flight at once (data plane)
MaxLoads == 1            \* loadSessionData calls of the initial-load effect in flight
MaxRefresh == 1          \* manualRefresh calls
MaxLen == 2              \* length of the drawn merge inputs
DGuests == 1 .. 2        \* guest ids
DTopics == 1 .. 2        \* topic ids
DQuestions == 1 .. 1     \* question ids, in pool position order

TickSteps == {50, 100}

\* --------------------------------------------------------- program constants
MAX_ERRORS_BEFORE_FALLBACK == 3
ERROR_DEBOUNCE_MS == 100
baseDelay == 2000
maxDelay == 30000
REALTIME_ENABLED == TRUE

NoTime == "null"         \* a null Date
SomeTime == "date"       \* a Date whose value no code path of the model compares
NoSession == "null"

Phases == {"lobby", "voting", "topicResults", "topicReveal", "questionPhase", "ended"}
\* the phases the control plane is driven through
CtlPhases == {"lobby", "voting", "ended"}

VARIABLES
  now,             \* Date.now(); read by the debounce only, timer delays are not measured
  sessionId,       \* the sessionId option of useSupabaseSession
  loads,           \* loadSessionData calls of the initial-load effect in flight
  phase,           \* session?.phase || "lobby"
  connectionMode,  \* useSupabaseSession: [mode, realtimeHealth, lastModeSwitch]
  recoveryTimer,   \* TRUE while the auto-recovery setTimeout is pending
  realtime,        \* useSupabaseRealtime: state and refs
  polling,         \* usePolling: state, refs, pending timers, fetches in flight
  lastSignalAt     \* history: when the last ERROR/CLOSED signal arrived (0: never)

ctlVars == <<now, sessionId, loads, phase, connectionMode, recoveryTimer, realtime, polling,
             lastSignalAt>>

VARIABLES
  mKind,           \* which merge function the drawn input is for
  mState,          \* the drawn first argument (the existing value)
  mBatch,          \* the drawn second argument (the batch)
  mOnce,           \* result of merging mBatch into mState
  mTwice,          \* result of merging mBatch into mOnce
  mStage,          \* 0: drawn, 1: merged once, 2: merged twice
  mArgAfter        \* the first argument of the last merge call, read after the call

mergeVars == <<mKind, mState, mBatch, mOnce, mTwice, mStage, mArgAfter>>

VARIABLES
  clock,             \* the remote store's time: the number of committed changes
  srv,               \* the remote store: guests, votes, picked_questions, sessions row
  events,            \* change payloads the realtime publication has emitted
  delivered,         \* history: the payloads delivered at least once
  session,           \* useSupabaseSession: the session snapshot, or NullSession
  lastPollTime,      \* useSupabaseSession: since-timestamp of incremental polls
  lastSessionUpdate, \* useSupabaseSession: newest session metadata seen
  fetches            \* results of loads / polls that have not resolved yet

dataVars == <<clock, srv, events, delivered, session, lastPollTime, lastSessionUpdate,
              fetches>>

VARIABLES
  sinceFull,         \* ms between the Date in lastFullFetchRef and the present
  allFailed          \* history: no poll fetch has resolved without an error so far

retryVars == <<sinceFull, allFailed>>

VARIABLES
  loadSids,          \* the session id each loadSessionData call in flight was made with
  snapshotOf         \* the session id whose rows the snapshot holds, NoSession for null

teardownVars == <<loadSids, snapshotOf>>

VARIABLES
  question_pool,     \* question_pool of one session: position -> [picked]
  poolLock,          \* position -> the caller whose transaction holds the row lock, 0 for none
  picked_questions,  \* picked_questions rows of the session, in insertion order
  guestPicked,       \* guests.picked_question_id of each guest, 0 while has_picked is false
  pickCalls          \* guest -> the pickQuestion / pick_question_atomic call it has in flight

pickVars == <<question_pool, poolLock, picked_questions, guestPicked, pickCalls>>

VARIABLES
  votes,             \* committed votes rows of one guest: the set of topic ids
  has_voted,         \* committed guests.has_voted of that guest
  voteCalls          \* caller -> the submit_vote_atomic transaction it has in flight

voteVars == <<votes, has_voted, voteCalls>>

VARIABLES
  sessions,          \* session id -> committed [phase, end_time] of the sessions row
  session_records,   \* committed session_records rows: a sequence of session ids
  endCalls           \* caller -> the end_session_atomic transaction it has in flight

endVars == <<sessions, session_records, endCalls>>

VARIABLES
  view,              \* AppState.view
  currentGuestId,    \* AppState.currentGuestId, 0 for null
  hookPhase,         \* sessionHook.session?.phase, "null" while session is null
  syncPending,       \* the view-sync effect is scheduled: a dependency changed in the last commit
  syncUpdates        \* history: setState calls of the view-sync effect since the last outside change

viewVars == <<view, currentGuestId, hookPhase, syncPending, syncUpdates>>

VARIABLES
  sinceFallback,     \* ms since the mode last went from realtime to polling
  timerLeft          \* ms until the pending auto-recovery setTimeout is due

recoverVars == <<sinceFallback, timerLeft>>

VARIABLES
  loading,           \* useSupabaseSession: the loading state
  error,             \* useSupabaseSession: the error state, "null" or the message
  loadCalls          \* loadSessionData calls in flight: the query awaited, the rows got

loadVars == <<loading, error, loadCalls>>

txVars == <<pickVars, voteVars, endVars, viewVars, recoverVars, loadVars>>

extVars == <<retryVars, teardownVars, txVars>>

\* everything but one group of tables, for the actions on that group
besidesPick == <<ctlVars, mergeVars, dataVars, retryVars, teardownVars, voteVars, endVars, viewVars,
                recoverVars, loadVars>>

besidesVote == <<ctlVars, mergeVars, dataVars, retryVars, teardownVars, pickVars, endVars, viewVars,
                recoverVars, loadVars>>

besidesEnd == <<ctlVars, mergeVars, dataVars, retryVars, teardownVars, pickVars, voteVars, viewVars,
                recoverVars, loadVars>>

besidesView == <<ctlVars, mergeVars, dataVars, retryVars, teardownVars, pickVars, voteVars, endVars,
                recoverVars, loadVars>>

vars == <<ctlVars, mergeVars, dataVars, extVars>>

\* session = null: a snapshot that was never loaded
NullSession ==
  [id |-> 0, guests |-> <<>>, votes |-> <<>>, pickedQuestions |-> <<>>,
   phase |-> "lobby", currentRound |-> 0, updated_at |-> 0]


\* ------------------------------------------------------------ utils/polling
Min(a, b) == IF a < b THEN a ELSE b

RECURSIVE Pow2(_)
Pow2(n) == IF n <= 0 THEN 1 ELSE 2 * Pow2(n - 1)

getIntervalForPhase(p) == IF p = "ended" THEN 0 ELSE 1000

getBackoffDelay(errorCount) == Min(baseDelay * Pow2(errorCount), maxDelay)

\* Array.prototype.includes / some over a sequence
Includes(seq, x) == \E i \in 1 .. Len(seq) : seq[i] = x

HasId(seq, id) == \E i \in 1 .. Len(seq) : seq[i].id = id

\* new Map(newGuests.map(g => [g.id, g])): keys in order of first insertion
RECURSIVE MapKeys(_)
MapKeys(seq) ==
  IF seq = <<>> THEN <<>>
  ELSE LET front == SubSeq(seq, 1, Len(seq) - 1)
           last == seq[Len(seq)]
       IN IF HasId(front, last.id) THEN MapKeys(front)
          ELSE Append(MapKeys(front), last.id)

\* Map.get: the value set last for the key
MapGet(seq, id) ==
  seq[CHOOSE i \in 1 .. Len(seq) :
        seq[i].id = id /\ \A j \in (i + 1) .. Len(seq) : seq[j].id # id]

\* mergeGuests dropping the existing guests the batch does not mention
mergeGuests_onlyMentioned(existing, newGuests) ==
  LET kept == SelectSeq(existing, LAMBDA g : HasId(newGuests, g.id))
      merged == [i \in 1 .. Len(kept) |-> MapGet(newGuests, kept[i].id)]
      keys == SelectSeq(MapKeys(newGuests), LAMBDA id : ~HasId(existing, id))
  IN merged \o [i \in 1 .. Len(keys) |-> MapGet(newGuests, keys[i])]

mergeGuests(existing, newGuests) ==
  LET \* the entry is still in the map when the first guest with the id is visited
      merged == [i \in 1 .. Len(existing) |->
                   IF HasId(newGuests, existing[i].id)
                      /\ ~HasId(SubSeq(existing, 1, i - 1), existing[i].id)
                   THEN MapGet(newGuests, existing[i].id)
                   ELSE existing[i]]
      keys == SelectSeq(MapKeys(newGuests), LAMBDA id : ~HasId(existing, id))
      additions == [i \in 1 .. Len(keys) |-> MapGet(newGuests, keys[i])]
  IN merged \o additions

\* mergeVotes adding the vote without the includes() test
RECURSIVE mergeVotes_noDedup(_, _)
mergeVotes_noDedup(existing, newVotes) ==
  IF newVotes = <<>> THEN existing
  ELSE LET vote == Head(newVotes)
           cur == IF vote.guest_id \in DOMAIN existing THEN existing[vote.guest_id] ELSE <<>>
           nxt == Append(cur, vote.topic_id)
       IN mergeVotes_noDedup(
            [g \in DOMAIN existing \cup {vote.guest_id} |->
               IF g = vote.guest_id THEN nxt ELSE existing[g]],
            Tail(newVotes))

\* votes: a function guestId -> sequence of topic ids
RECURSIVE mergeVotes(_, _)
mergeVotes(existing, newVotes) ==
  IF newVotes = <<>> THEN existing
  ELSE LET vote == Head(newVotes)
           cur == IF vote.guest_id \in DOMAIN existing THEN existing[vote.guest_id] ELSE <<>>
           nxt == IF Includes(cur, vote.topic_id) THEN cur ELSE Append(cur, vote.topic_id)
       IN mergeVotes(
            [g \in DOMAIN existing \cup {vote.guest_id} |->
               IF g = vote.guest_id THEN nxt ELSE existing[g]],
            Tail(newVotes))

\* mergeVotes on the heap.  merged = { ...existing } copies the references:
\* merged[g] and existing[g] are one array object until merged[g] is assigned,
\* and push() changes the object.  merged: guestId -> address, heap: address ->
\* array.
RECURSIVE mergeVotesHeap(_, _, _)
mergeVotesHeap(merged, heap, newVotes) ==
  IF newVotes = <<>> THEN [merged |-> merged, heap |-> heap]
  ELSE LET vote == Head(newVotes)
           g == vote.guest_id
           fresh == g \notin DOMAIN merged
           heap1 == IF fresh THEN Append(heap, <<>>) ELSE heap
           merged1 == IF fresh
                      THEN [h \in DOMAIN merged \cup {g} |->
                              IF h = g THEN Len(heap1) ELSE merged[h]]
                      ELSE merged
           a == merged1[g]
           heap2 == IF Includes(heap1[a], vote.topic_id) THEN heap1
                    ELSE [heap1 EXCEPT ![a] = Append(@, vote.topic_id)]
       IN mergeVotesHeap(merged1, heap2, Tail(newVotes))

\* the arrays of existing are laid out at the addresses of their guest ids
VotesHeap(existing) ==
  SubSeq([adr \in 1 .. Cardinality(DGuests) |->
            IF adr \in DOMAIN existing THEN existing[adr] ELSE <<>>],
         1, Cardinality(DGuests))

\* the value mergeVotes returns, read from the heap
mergeVotesResult(existing, newVotes) ==
  LET r == mergeVotesHeap([g \in DOMAIN existing |-> g], VotesHeap(existing), newVotes)
  IN [g \in DOMAIN r.merged |-> r.heap[r.merged[g]]]

\* the value of existing after mergeVotes(existing, newVotes) has returned
mergeVotesExisting(existing, newVotes) ==
  LET r == mergeVotesHeap([g \in DOMAIN existing |-> g], VotesHeap(existing), newVotes)
  IN [g \in DOMAIN existing |-> r.heap[g]]

mergePickedQuestions(existing, newPicks) ==
  LET existingIds == {existing[i].questionId : i \in 1 .. Len(existing)}
      additions == SelectSeq(newPicks, LAMBDA p : p.questionId \notin existingIds)
  IN existing \o additions

\* ------------------------------------------------------- useSupabaseSession
\* handleConnectionStateChange: the setConnectionMode updater
handleConnectionStateChange(cm, mode, t) ==
  [cm EXCEPT !.mode = mode,
             !.realtimeHealth = IF mode = "realtime" THEN "healthy" ELSE "failed",
             !.lastModeSwitch = SomeTime]

\* connectionHealth returned by useSupabaseSession
ReportedHealth(cm, rtHealth, pollHealth) ==
  IF cm.mode = "realtime" THEN rtHealth ELSE pollHealth

\* enabled option handed to useSupabaseRealtime
RealtimeEnabled(cm, sid) == REALTIME_ENABLED /\ cm.mode = "realtime" /\ sid # NoSession

\* enabled option handed to usePolling
PollingEnabled(cm, sid) == cm.mode = "polling" /\ sid # NoSession

\* auto-recovery effect, deps [mode, lastModeSwitch]; rerun = a dep changed
RecoveryEffect(rec, cm, rerun) ==
  IF ~rerun THEN rec
  ELSE REALTIME_ENABLED /\ cm.mode = "polling" /\ cm.lastModeSwitch # NoTime

\* the 30 s timer's callback: the setConnectionMode updater
RecoveryUpdate(cm) == [cm EXCEPT !.mode = "realtime", !.realtimeHealth = "healthy"]

\* ------------------------------------------------------ useSupabaseRealtime
\* handleConnectionState falling back only after the threshold is exceeded
handleConnectionState_lateFallback(rt, cm, state, t) ==
  LET rt1 == [rt EXCEPT !.connectionState = state] IN
  IF state = "CONNECTED" THEN
    [rt |-> [rt1 EXCEPT !.errorCountRef = 0, !.lastErrorTimestampRef = 0],
     cm |-> handleConnectionStateChange(cm, "realtime", t),
     notified |-> TRUE]
  ELSE IF state \in {"ERROR", "CLOSED"} THEN
    IF t - rt.lastErrorTimestampRef < ERROR_DEBOUNCE_MS THEN
      [rt |-> rt1, cm |-> cm, notified |-> FALSE]
    ELSE
      LET n == rt.errorCountRef + 1 IN
      [rt |-> [rt1 EXCEPT !.lastErrorTimestampRef = t, !.errorCountRef = n],
       cm |-> IF n > MAX_ERRORS_BEFORE_FALLBACK
              THEN handleConnectionStateChange(cm, "polling", t) ELSE cm,
       notified |-> n > MAX_ERRORS_BEFORE_FALLBACK]
  ELSE [rt |-> rt1, cm |-> cm, notified |-> FALSE]

\* handleConnectionState whose debounce window includes its end point
handleConnectionState_inclusiveDebounce(rt, cm, state, t) ==
  LET rt1 == [rt EXCEPT !.connectionState = state] IN
  IF state = "CONNECTED" THEN
    [rt |-> [rt1 EXCEPT !.errorCountRef = 0, !.lastErrorTimestampRef = 0],
     cm |-> handleConnectionStateChange(cm, "realtime", t),
     notified |-> TRUE]
  ELSE IF state \in {"ERROR", "CLOSED"} THEN
    IF t - rt.lastErrorTimestampRef <= ERROR_DEBOUNCE_MS THEN
      [rt |-> rt1, cm |-> cm, notified |-> FALSE]
    ELSE
      LET n == rt.errorCountRef + 1 IN
      [rt |-> [rt1 EXCEPT !.lastErrorTimestampRef = t, !.errorCountRef = n],
       cm |-> IF n >= MAX_ERRORS_BEFORE_FALLBACK
              THEN handleConnectionStateChange(cm, "polling", t) ELSE cm,
       notified |-> n >= MAX_ERRORS_BEFORE_FALLBACK]
  ELSE [rt |-> rt1, cm |-> cm, notified |-> FALSE]

\* handleConnectionState; yields the hook's state and the connection mode
handleConnectionState(rt, cm, state, t) ==
  LET rt1 == [rt EXCEPT !.connectionState = state] IN
  IF state = "CONNECTED" THEN
    [rt |-> [rt1 EXCEPT !.errorCountRef = 0, !.lastErrorTimestampRef = 0],
     cm |-> handleConnectionStateChange(cm, "realtime", t),
     notified |-> TRUE]
  ELSE IF state \in {"ERROR", "CLOSED"} THEN
    IF t - rt.lastErrorTimestampRef < ERROR_DEBOUNCE_MS THEN
      [rt |-> rt1, cm |-> cm, notified |-> FALSE]
    ELSE
      LET n == rt.errorCountRef + 1 IN
      [rt |-> [rt1 EXCEPT !.lastErrorTimestampRef = t, !.errorCountRef = n],
       cm |-> IF n >= MAX_ERRORS_BEFORE_FALLBACK
              THEN handleConnectionStateChange(cm, "polling", t) ELSE cm,
       notified |-> n >= MAX_ERRORS_BEFORE_FALLBACK]
  ELSE [rt |-> rt1, cm |-> cm, notified |-> FALSE]

\* the cleanup function of the subscription effect: removeChannel(channelRef.current)
\* takes the channel the ref holds (the one created last) off the client's list;
\* removed: the subscribe callback of a channel taken off is still registered
RealtimeCleanup(rt) ==
  IF rt.channel = "null" THEN rt
  ELSE [rt EXCEPT !.channels = SubSeq(@, 1, Len(@) - 1), !.channel = "null",
                  !.removed = TRUE]

\* the set-up of the subscription effect: supabase.channel(`session:${sessionId}`)
RealtimeSetup(rt, sid) ==
  [rt EXCEPT !.channels = Append(@, sid), !.channel = "joining",
             !.connectionState = "CONNECTING"]

\* the subscription effect setting up without running the previous cleanup
RealtimeEffect_noCleanup(rt, rerun, hadCleanup, is, sid) ==
  IF ~rerun THEN rt
  ELSE IF is THEN RealtimeSetup(rt, sid)
  ELSE IF hadCleanup THEN RealtimeCleanup(rt) ELSE rt

\* subscription effect, deps [enabled, sessionId, callbacks]: cleanup, then set-up
\* rerun = a dep changed; hadCleanup = the previous run returned its cleanup
RealtimeEffect(rt, rerun, hadCleanup, is, sid) ==
  IF ~rerun THEN rt
  ELSE LET closed == IF hadCleanup THEN RealtimeCleanup(rt) ELSE rt IN
       IF is THEN RealtimeSetup(closed, sid) ELSE closed

\* connectionHealth returned by useSupabaseRealtime
realtimeConnectionHealth(rt) ==
  IF rt.connectionState = "CONNECTED" THEN "healthy"
  ELSE IF rt.connectionState = "CONNECTING" THEN "degraded"
  ELSE "disconnected"

\* the callback without its TIMED_OUT branch: the status is not reported as an error
SubscribeStatus_timeoutIgnored(status) ==
  CASE status = "SUBSCRIBED" -> "CONNECTED"
    [] status = "CHANNEL_ERROR" -> "ERROR"
    [] status = "TIMED_OUT" -> "CONNECTING"
    [] status = "CLOSED" -> "CLOSED"

\* status handed to the channel.subscribe callback -> connection state
SubscribeStatus(status) ==
  CASE status = "SUBSCRIBED" -> "CONNECTED"
    [] status = "CHANNEL_ERROR" -> "ERROR"
    [] status = "TIMED_OUT" -> "ERROR"
    [] status = "CLOSED" -> "CLOSED"

\* ---------------------------------------------------------------- usePolling
TimerIds == 1 .. MaxTimers

ClearTimeout(timers, ref) == {tm \in timers : tm.id # ref}

FreshTimer(p) ==
  CHOOSE i \in TimerIds : i # p.timeoutRef /\ \A tm \in p.timers : tm.id # i

\* scheduleNextPoll without the clearTimeout of the previous handle
scheduleNextPoll_noClear(p, interval) ==
  IF ~p.isMountedRef THEN p
  ELSE LET delay == IF p.consecutiveErrorsRef > 0
                    THEN getBackoffDelay(p.consecutiveErrorsRef) ELSE interval
           id == FreshTimer(p)
       IN [p EXCEPT !.timers = @ \cup {[id |-> id, delay |-> delay, interval |-> interval]},
                    !.timeoutRef = id,
                    !.log.errors = p.consecutiveErrorsRef,
                    !.log.delay = delay]

\* scheduleNextPoll of a closure created with the given interval
scheduleNextPoll(p, interval) ==
  IF ~p.isMountedRef THEN p
  ELSE LET cleared == IF p.timeoutRef # 0 THEN ClearTimeout(p.timers, p.timeoutRef)
                      ELSE p.timers
           delay == IF p.consecutiveErrorsRef > 0
                    THEN getBackoffDelay(p.consecutiveErrorsRef) ELSE interval
           id == FreshTimer(p)
       IN [p EXCEPT !.timers = cleared \cup {[id |-> id, delay |-> delay, interval |-> interval]},
                    !.timeoutRef = id,
                    !.log.errors = p.consecutiveErrorsRef,
                    !.log.delay = delay]

\* executePoll up to its first await; stale = more than 30 s since the last
\* full fetch.  A call that returns at once runs its .then(scheduleNextPoll).
executePoll(p, interval, stale, t) ==
  IF p.isPollingRef \/ ~p.isMountedRef THEN scheduleNextPoll(p, interval)
  ELSE LET shouldFullReload == p.lastFullFetchRef = NoTime \/ stale IN
       [p EXCEPT !.isPollingRef = TRUE,
                 !.inflight = Append(@, [kind |-> IF shouldFullReload THEN "full" ELSE "incremental",
                                         at |-> SomeTime, interval |-> interval])]

\* main polling effect, deps [enabled, sessionId, phase]
\* hadCleanup = the previous run returned its cleanup function
PollingEffect(p, rerun, hadCleanup, enabled, ph, stale, t) ==
  IF ~rerun THEN p
  ELSE LET p1 == IF hadCleanup
                 THEN [p EXCEPT !.isMountedRef = FALSE,
                                !.timers = ClearTimeout(@, p.timeoutRef),
                                !.timeoutRef = 0,
                                !.isPollingRef = FALSE]
                 ELSE p
           p2 == [p1 EXCEPT !.isMountedRef = TRUE]
           interval == getIntervalForPhase(ph)
       IN IF ~enabled \/ interval = 0
          THEN [p2 EXCEPT !.timers = ClearTimeout(@, p2.timeoutRef),
                          !.timeoutRef = 0,
                          !.isPolling = FALSE]
          ELSE executePoll([p2 EXCEPT !.isPolling = TRUE], interval, stale, t)

\* did the effect run that is current return a cleanup function
HadCleanup(cm, sid, ph) == PollingEnabled(cm, sid) /\ getIntervalForPhase(ph) # 0

\* executePoll whose success branches leave the error count as it was
PollSettled_keepErrors(p, f, ok) ==
  LET done ==
        IF ~p.isMountedRef THEN p
        ELSE IF ok THEN
          [p EXCEPT !.lastFullFetchRef = IF f.kind = "full" THEN f.at ELSE @,
                    !.connectionHealth = "healthy"]
        ELSE
          LET newErrors == p.consecutiveErrorsRef + 1 IN
          [p EXCEPT !.consecutiveErrorsRef = newErrors,
                    !.connectionHealth = IF newErrors >= 5 THEN "disconnected"
                                         ELSE IF newErrors >= 2 THEN "degraded"
                                         ELSE "healthy"]
  IN scheduleNextPoll([done EXCEPT !.isPollingRef = FALSE,
                                   !.log.recovered = ok /\ p.consecutiveErrorsRef > 0],
                      f.interval)

\* executePoll after its await: success, failure, finally, then scheduleNextPoll
PollSettled(p, f, ok) ==
  LET done ==
        IF ~p.isMountedRef THEN p
        ELSE IF ok THEN
          [p EXCEPT !.lastFullFetchRef = IF f.kind = "full" THEN f.at ELSE @,
                    !.consecutiveErrorsRef = 0,
                    !.connectionHealth = "healthy"]
        ELSE
          LET newErrors == p.consecutiveErrorsRef + 1 IN
          [p EXCEPT !.consecutiveErrorsRef = newErrors,
                    !.connectionHealth = IF newErrors >= 5 THEN "disconnected"
                                         ELSE IF newErrors >= 2 THEN "degraded"
                                         ELSE "healthy"]
  IN scheduleNextPoll([done EXCEPT !.isPollingRef = FALSE,
                                   !.log.recovered = ok /\ p.consecutiveErrorsRef > 0],
                      f.interval)

\* manualRefresh up to the await of doRefresh
manualRefresh(p, enabled, sid) ==
  IF sid = NoSession \/ ~enabled THEN p
  ELSE [p EXCEPT !.inflight = Append(@, [kind |-> "manual", at |-> SomeTime, interval |-> 0])]

\* doRefresh after its await: the try branch, or the catch branch
RefreshSettled(p, ok) ==
  IF ok THEN [p EXCEPT !.lastFullFetchRef = SomeTime,
                       !.consecutiveErrorsRef = 0,
                       !.connectionHealth = "healthy"]
  ELSE LET newErrors == p.consecutiveErrorsRef + 1 IN
       [p EXCEPT !.consecutiveErrorsRef = newErrors,
                 !.connectionHealth = IF newErrors >= 4 THEN "disconnected" ELSE "degraded"]


\* =================================================================== data plane
\* ------------------------------------------------------------ the remote store
PhaseOrder == <<"lobby", "voting", "topicResults", "topicReveal", "questionPhase", "ended">>

PhaseIndex(ph) == CHOOSE i \in 1 .. Len(PhaseOrder) : PhaseOrder[i] = ph

\* ORDER BY: the elements of S in ascending order of key (a function on S)
RECURSIVE SortByKey(_, _)
SortByKey(S, key) ==
  IF S = {} THEN <<>>
  ELSE LET m == CHOOSE x \in S : \A y \in S : key[x] <= key[y]
       IN <<m>> \o SortByKey(S \ {m}, key)

Payload(table, eventType, row) == [table |-> table, eventType |-> eventType, new |-> row]

\* guestService.joinSession: INSERT INTO guests
JoinRow(g, t) ==
  [id |-> g, has_voted |-> FALSE, has_picked |-> FALSE, picked_question_id |-> 0,
   joined_at |-> t, ver |-> t]

\* select * from guests where session_id = sid [and joined_at > since] order by joined_at
SelectGuests(db, since) ==
  LET rows == {r \in db.guests : r.joined_at > since}
  IN SortByKey(rows, [r \in rows |-> r.joined_at])

\* select * from votes where session_id = sid [and created_at > since]
SelectVotes(db, since) ==
  LET rows == {r \in db.votes : r.created_at > since}
  IN SortByKey(rows, [r \in rows |-> (r.created_at * 100) + (r.guest_id * 10) + r.topic_id])

\* select ... from picked_questions where session_id = sid [and picked_at > since]
SelectPicks(db, since) ==
  LET rows == {r \in db.picks : r.picked_at > since}
  IN SortByKey(rows, [r \in rows |-> (r.picked_at * 10) + r.question_id])

\* ------------------------------------------------------- useSupabaseSession
\* guests row -> Guest (loadSessionData, handleIncrementalPoll)
TransformGuestRow(g) ==
  [id |-> g.id, hasVoted |-> g.has_voted, hasPicked |-> g.has_picked,
   pickedQuestionId |-> g.picked_question_id, joined_at |-> g.joined_at, ver |-> g.ver]

TransformPick(p) == [questionId |-> p.question_id, round |-> p.round]

TransformGuestRows(rows) == [i \in 1 .. Len(rows) |-> TransformGuestRow(rows[i])]

TransformPicks(rows) == [i \in 1 .. Len(rows) |-> TransformPick(rows[i])]

\* loadSessionData: the six queries and the Session handed to setSession
loadSessionData(db) ==
  LET votesData == SelectVotes(db, 0 - 1)
      voters == {votesData[i].guest_id : i \in 1 .. Len(votesData)}
      topicsOf(g) == LET mine == SelectSeq(votesData, LAMBDA v : v.guest_id = g)
                     IN [i \in 1 .. Len(mine) |-> mine[i].topic_id]
  IN [id |-> 1,
      guests |-> TransformGuestRows(SelectGuests(db, 0 - 1)),
      votes |-> [g \in voters |-> topicsOf(g)],
      pickedQuestions |-> TransformPicks(SelectPicks(db, 0 - 1)),
      phase |-> db.session.phase,
      currentRound |-> db.session.current_round,
      updated_at |-> db.session.updated_at]

\* the four parallel queries of handleIncrementalPoll
IncrementalFetch(db, since) ==
  [sessionUpdate |-> db.session,
   newGuests |-> SelectGuests(db, since),
   newVotes |-> SelectVotes(db, since),
   newPicks |-> SelectPicks(db, since)]

\* the queries of handleIncrementalPoll; each fetcher throws the error of its query
PollQueries == {"session", "guests", "votes", "picks"}

\* Promise.allSettled in place of Promise.all: the rows of the queries that
\* succeeded are handed on
PromiseAll_settled(failed, data) ==
  [rejected |-> FALSE,
   value |-> [sessionUpdate |-> data.sessionUpdate,
              newGuests |-> IF "guests" \in failed THEN <<>> ELSE data.newGuests,
              newVotes |-> IF "votes" \in failed THEN <<>> ELSE data.newVotes,
              newPicks |-> IF "picks" \in failed THEN <<>> ELSE data.newPicks]]

\* await Promise.all([...]): rejects when one of the queries failed
PromiseAll(failed, data) ==
  [rejected |-> failed # {}, value |-> data]

\* does the incremental poll take over the session metadata
MetadataNewer(res, lsu) == res.sessionUpdate.updated_at > lsu

\* handleIncrementalPoll: the setSession updater
IncrementalUpdate(prev, res, lsu) ==
  IF prev = NullSession THEN prev
  ELSE LET s1 == IF Len(res.newGuests) > 0
                 THEN [prev EXCEPT !.guests = mergeGuests(prev.guests,
                                       TransformGuestRows(res.newGuests))]
                 ELSE prev
           s2 == IF Len(res.newVotes) > 0
                 THEN [s1 EXCEPT !.votes = mergeVotes(prev.votes, res.newVotes)]
                 ELSE s1
           s3 == IF Len(res.newPicks) > 0
                 THEN [s2 EXCEPT !.pickedQuestions = mergePickedQuestions(prev.pickedQuestions,
                                       TransformPicks(res.newPicks))]
                 ELSE s2
       IN IF MetadataNewer(res, lsu)
          THEN [s3 EXCEPT !.phase = res.sessionUpdate.phase,
                          !.currentRound = res.sessionUpdate.current_round,
                          !.updated_at = res.sessionUpdate.updated_at]
          ELSE s3

\* a picked_questions row is selected with its joined guests(nickname) and
\* questions(text, topic_id, topics(name)); an embedded row that is missing
\* comes back as null
NoRow == "null"
JoinedRows == {"row", NoRow}

\* p.questions.text, p.questions.topics.name, p.guests.nickname: a TypeError
\* when the embedded row is null
PickThrows(p) == p.questions = NoRow \/ p.guests = NoRow

AnyPickThrows(rows) == \E i \in 1 .. Len(rows) : PickThrows(rows[i])

\* setSession(updater) of handleIncrementalPoll with rows that carry their
\* embedded rows: an updater that throws leaves the state as it was
IncrementalUpdateRows(prev, res, lsu) ==
  IF prev = NullSession THEN prev
  ELSE IF Len(res.newPicks) > 0 /\ AnyPickThrows(res.newPicks) THEN prev
  ELSE IncrementalUpdate(prev, res, lsu)

\* loadSessionData from the rows fetched: the transform runs inside the try,
\* the catch sets the error message and setSession is not reached
LoadRows(prev, rows) ==
  IF AnyPickThrows(rows.pickedData) THEN prev
  ELSE [id |-> 1,
        guests |-> TransformGuestRows(rows.guestsData),
        votes |-> <<>>,
        pickedQuestions |-> TransformPicks(rows.pickedData),
        phase |-> rows.sessionData.phase,
        currentRound |-> rows.sessionData.current_round,
        updated_at |-> rows.sessionData.updated_at]

\* payload.new of a guests event -> Guest (transformGuest, then the handler)
GuestOfPayload(row) ==
  [id |-> row.id, hasVoted |-> row.has_voted, hasPicked |-> row.has_picked,
   pickedQuestionId |-> row.picked_question_id, joined_at |-> row.joined_at, ver |-> row.ver]

\* handleRealtimeGuestInsert appending without the exists test
handleRealtimeGuestInsert_noDedup(prev, row) ==
  IF prev = NullSession THEN prev
  ELSE [prev EXCEPT !.guests = Append(@, GuestOfPayload(row))]

\* handleRealtimeGuestInsert: the setSession updater
handleRealtimeGuestInsert(prev, row) ==
  IF prev = NullSession THEN prev
  ELSE IF HasId(prev.guests, row.id) THEN prev
  ELSE [prev EXCEPT !.guests = Append(@, GuestOfPayload(row))]

\* handleRealtimeGuestUpdate: the setSession updater
handleRealtimeGuestUpdate(prev, row) ==
  IF prev = NullSession THEN prev
  ELSE IF ~HasId(prev.guests, row.id) THEN prev
  ELSE LET guestIndex == CHOOSE i \in 1 .. Len(prev.guests) :
                           /\ prev.guests[i].id = row.id
                           /\ \A j \in 1 .. (i - 1) : prev.guests[j].id # row.id
       IN [prev EXCEPT !.guests[guestIndex] = GuestOfPayload(row)]

\* handleRealtimeVoteInsert: the setSession updater
handleRealtimeVoteInsert(prev, row) ==
  IF prev = NullSession THEN prev
  ELSE LET cur == IF row.guest_id \in DOMAIN prev.votes THEN prev.votes[row.guest_id] ELSE <<>>
       IN IF Includes(cur, row.topic_id) THEN prev
          ELSE [prev EXCEPT !.votes = [g \in DOMAIN prev.votes \cup {row.guest_id} |->
                                         IF g = row.guest_id THEN Append(cur, row.topic_id)
                                         ELSE prev.votes[g]]]

\* handleRealtimeSessionUpdate: the setSession updater
handleRealtimeSessionUpdate(prev, row) ==
  IF prev = NullSession THEN prev
  ELSE [prev EXCEPT !.phase = row.phase, !.currentRound = row.current_round,
                    !.updated_at = row.updated_at]

\* --------------------------------------------------------------------- actions
DataInit ==
  /\ clock = 0
  /\ srv = [guests |-> {}, votes |-> {}, picks |-> {},
            session |-> [phase |-> "lobby", current_round |-> 1, updated_at |-> 0]]
  /\ events = {}
  /\ delivered = {}
  /\ session = NullSession
  /\ lastPollTime = 0
  /\ lastSessionUpdate = 0
  \* the initial data load effect has called loadSessionData
  /\ fetches = {[kind |-> "full", data |-> loadSessionData(srv), viaPoll |-> FALSE]}

\* a guest joins the session
GuestJoins ==
  /\ UNCHANGED <<ctlVars, mergeVars, extVars>>
  /\ \E g \in DGuests :
       /\ clock < MaxChanges
       /\ \A r \in srv.guests : r.id # g
       \* guests are interchangeable: they join in the order of their ids
       /\ \A h \in DGuests : h < g => \E r \in srv.guests : r.id = h
       /\ clock' = clock + 1
       /\ srv' = [srv EXCEPT !.guests = @ \cup {JoinRow(g, clock')}]
       /\ events' = events \cup {Payload("guests", "INSERT", JoinRow(g, clock'))}
       /\ UNCHANGED <<delivered, session, lastPollTime, lastSessionUpdate, fetches>>

\* submit_vote_atomic
SubmitVote ==
  /\ UNCHANGED <<ctlVars, mergeVars, extVars>>
  /\ \E r \in srv.guests : \E T \in SUBSET DTopics :
       /\ clock < MaxChanges
       /\ T # {}
       /\ ~r.has_voted
       /\ clock' = clock + 1
       /\ LET r2 == [r EXCEPT !.has_voted = TRUE, !.ver = clock']
              rows == {[guest_id |-> r.id, topic_id |-> t, created_at |-> clock'] : t \in T}
          IN /\ srv' = [srv EXCEPT !.guests = (@ \ {r}) \cup {r2}, !.votes = @ \cup rows]
             /\ events' = events \cup {Payload("guests", "UPDATE", r2)}
                                 \cup {Payload("votes", "INSERT", v) : v \in rows}
       /\ UNCHANGED <<delivered, session, lastPollTime, lastSessionUpdate, fetches>>

\* pick_question_atomic
PickQuestion ==
  /\ UNCHANGED <<ctlVars, mergeVars, extVars>>
  /\ \E r \in srv.guests :
       /\ clock < MaxChanges
       /\ \E q \in DQuestions : \A p \in srv.picks : p.question_id # q
       /\ clock' = clock + 1
       /\ LET q == CHOOSE q \in DQuestions :
                     /\ \A p \in srv.picks : p.question_id # q
                     /\ \A q2 \in DQuestions : q2 < q => \E p \in srv.picks : p.question_id = q2
              r2 == [r EXCEPT !.has_picked = TRUE, !.picked_question_id = q, !.ver = clock']
              pick == [question_id |-> q, round |-> srv.session.current_round,
                       guest_id |-> r.id, picked_at |-> clock']
          IN /\ srv' = [srv EXCEPT !.guests = (@ \ {r}) \cup {r2}, !.picks = @ \cup {pick}]
             \* the question_pool UPDATE of the same transaction has a listener that
             \* does what the picked_questions listener does: one payload stands for both
             /\ events' = events \cup {Payload("guests", "UPDATE", r2),
                                       Payload("picked_questions", "INSERT", pick)}
       /\ UNCHANGED <<delivered, session, lastPollTime, lastSessionUpdate, fetches>>

\* sessionService.advancePhase, with the updated_at trigger
AdvancePhase ==
  /\ UNCHANGED <<ctlVars, mergeVars, extVars>>
  /\ /\ clock < MaxChanges
     /\ srv.session.phase # "ended"
     /\ clock' = clock + 1
     /\ LET row == [srv.session EXCEPT !.phase = PhaseOrder[PhaseIndex(@) + 1],
                                       !.updated_at = clock']
        IN /\ srv' = [srv EXCEPT !.session = row]
           /\ events' = events \cup {Payload("sessions", "UPDATE", row)}
     /\ UNCHANGED <<delivered, session, lastPollTime, lastSessionUpdate, fetches>>

\* a payload reaches a listener of the channel
Deliver(e, table, eventType) ==
  /\ e \in events
  /\ e.table = table /\ e.eventType = eventType
  /\ delivered' = delivered \cup {e}
  /\ UNCHANGED <<clock, srv, events>>

OnGuestInsert ==
  /\ UNCHANGED <<ctlVars, mergeVars, extVars>>
  /\ \E e \in events :
       /\ Deliver(e, "guests", "INSERT")
       /\ session' = handleRealtimeGuestInsert(session, e.new)
       /\ UNCHANGED <<lastPollTime, lastSessionUpdate, fetches>>

OnGuestUpdate ==
  /\ UNCHANGED <<ctlVars, mergeVars, extVars>>
  /\ \E e \in events :
       /\ Deliver(e, "guests", "UPDATE")
       /\ session' = handleRealtimeGuestUpdate(session, e.new)
       /\ UNCHANGED <<lastPollTime, lastSessionUpdate, fetches>>

OnVoteInsert ==
  /\ UNCHANGED <<ctlVars, mergeVars, extVars>>
  /\ \E e \in events :
       /\ Deliver(e, "votes", "INSERT")
       /\ session' = handleRealtimeVoteInsert(session, e.new)
       /\ UNCHANGED <<lastPollTime, lastSessionUpdate, fetches>>

OnSessionUpdate ==
  /\ UNCHANGED <<ctlVars, mergeVars, extVars>>
  /\ \E e \in events :
       /\ Deliver(e, "sessions", "UPDATE")
       /\ session' = handleRealtimeSessionUpdate(session, e.new)
       /\ lastSessionUpdate' = clock
       /\ UNCHANGED <<lastPollTime, fetches>>

\* handleFullReload up to the await of loadSessionData
StartReload == fetches \cup {[kind |-> "full", data |-> loadSessionData(srv), viaPoll |-> TRUE]}

\* handleRealtimePickedQuestionInsert / handleRealtimeQuestionPoolUpdate
OnPickedQuestionInsert ==
  /\ UNCHANGED <<ctlVars, mergeVars, extVars>>
  /\ \E e \in events :
       /\ Deliver(e, "picked_questions", "INSERT")
       /\ Cardinality(fetches) < MaxFetches
       /\ fetches' = StartReload
       /\ UNCHANGED <<session, lastPollTime, lastSessionUpdate>>

\* a poll cycle or manual refresh calls handleFullReload
StartFullReload ==
  /\ UNCHANGED <<ctlVars, mergeVars, extVars>>
  /\ /\ Cardinality(fetches) < MaxFetches
     /\ fetches' = StartReload
     /\ UNCHANGED <<clock, srv, events, delivered, session, lastPollTime, lastSessionUpdate>>

\* a poll cycle calls handleIncrementalPoll
StartIncrementalPoll ==
  /\ UNCHANGED <<ctlVars, mergeVars, extVars>>
  /\ /\ Cardinality(fetches) < MaxFetches
     /\ \E failed \in SUBSET PollQueries :
          fetches' = fetches \cup {[kind |-> "incremental",
                                    data |-> IncrementalFetch(srv, lastPollTime),
                                    lsu |-> lastSessionUpdate,
                                    failed |-> failed]}
     /\ UNCHANGED <<clock, srv, events, delivered, session, lastPollTime, lastSessionUpdate>>

\* loadSessionData resolves; handleFullReload goes on after its await
ResolveFullReload ==
  /\ UNCHANGED <<ctlVars, mergeVars, extVars>>
  /\ \E f \in fetches : \E ok \in BOOLEAN :
       /\ f.kind = "full"
       /\ fetches' = fetches \ {f}
       /\ session' = IF ok THEN f.data ELSE session
       /\ lastPollTime' = IF f.viaPoll THEN clock ELSE lastPollTime
       /\ UNCHANGED <<clock, srv, events, delivered, lastSessionUpdate>>

\* the queries of handleIncrementalPoll settle: the await of Promise.all goes
\* on to the merge, or throws and the catch block rethrows
ResolveIncrementalPoll ==
  /\ UNCHANGED <<ctlVars, mergeVars, extVars>>
  /\ \E f \in fetches :
       LET r == PromiseAll(f.failed, f.data)
           ok == ~r.rejected
       IN
       /\ f.kind = "incremental"
       /\ fetches' = fetches \ {f}
       /\ session' = IF ok THEN IncrementalUpdate(session, r.value, f.lsu) ELSE session
       /\ lastSessionUpdate' = IF ok /\ session # NullSession /\ MetadataNewer(r.value, f.lsu)
                               THEN r.value.sessionUpdate.updated_at ELSE lastSessionUpdate
       /\ lastPollTime' = IF ok THEN clock ELSE lastPollTime
       /\ UNCHANGED <<clock, srv, events, delivered>>

DataNext ==
  \/ GuestJoins \/ SubmitVote \/ PickQuestion \/ AdvancePhase
  \/ OnGuestInsert \/ OnGuestUpdate \/ OnVoteInsert \/ OnSessionUpdate
  \/ OnPickedQuestionInsert
  \/ StartFullReload \/ StartIncrementalPoll
  \/ ResolveFullReload \/ ResolveIncrementalPoll

\* ------------------------------------------------------------ control plane
\* one React commit after the props became (sid2, callbacks changed or not) and
\* a handler left the supervisor at cm2 and the phase at ph2
CommitProps(sid2, callbacks, cm2, ph2, rt2, p2, switched) ==
  \E stale \in BOOLEAN :
  /\ connectionMode' = cm2
  /\ phase' = ph2
  /\ realtime' = RealtimeEffect(rt2,
                    RealtimeEnabled(connectionMode, sessionId) # RealtimeEnabled(cm2, sid2)
                      \/ sessionId # sid2 \/ callbacks,
                    RealtimeEnabled(connectionMode, sessionId),
                    RealtimeEnabled(cm2, sid2), sid2)
  /\ polling' = PollingEffect(p2,
                    PollingEnabled(connectionMode, sessionId) # PollingEnabled(cm2, sid2)
                      \/ sessionId # sid2 \/ phase # ph2,
                    HadCleanup(connectionMode, sessionId, phase),
                    PollingEnabled(cm2, sid2), ph2, stale, now)
  /\ recoveryTimer' = RecoveryEffect(recoveryTimer, cm2,
                                     switched \/ cm2.mode # connectionMode.mode)

\* one React commit with the props unchanged
Commit(cm2, ph2, rt2, p2, switched) ==
  CommitProps(sessionId, FALSE, cm2, ph2, rt2, p2, switched)

CtlInit ==
  /\ now = StartTime
  /\ sessionId = "s1"
  \* the loadSessionData call of the initial-load effect has settled
  /\ loads = 0
  /\ phase = "lobby"
  /\ connectionMode = [mode |-> IF REALTIME_ENABLED THEN "realtime" ELSE "polling",
                       realtimeHealth |-> "healthy", lastModeSwitch |-> NoTime]
  /\ recoveryTimer = FALSE
  /\ realtime = [connectionState |-> "CONNECTING", errorCountRef |-> 0,
                 lastErrorTimestampRef |-> 0, channel |-> "joining",
                 channels |-> <<"s1">>, removed |-> FALSE]
  /\ polling = [isPolling |-> FALSE, connectionHealth |-> "healthy", timeoutRef |-> 0,
                isPollingRef |-> FALSE, isMountedRef |-> TRUE, consecutiveErrorsRef |-> 0,
                lastFullFetchRef |-> NoTime, timers |-> {}, inflight |-> <<>>,
                log |-> [errors |-> 0, delay |-> 0, recovered |-> FALSE,
                         fullLoaded |-> FALSE, calls |-> 0]]
  /\ lastSignalAt = 0

\* time passes
Tick ==
  /\ UNCHANGED <<dataVars, mergeVars, extVars>>
  /\ /\ \E d \in TickSteps : now + d <= MaxTime /\ now' = now + d
     /\ UNCHANGED <<sessionId, loads, phase, connectionMode, recoveryTimer, realtime, polling,
                    lastSignalAt>>

ErrorStatuses == {"CHANNEL_ERROR", "TIMED_OUT", "CLOSED"}

\* the channel.subscribe callback fires with a status
OnSubscribeStatus(status) ==
  /\ UNCHANGED <<dataVars, mergeVars, extVars>>
  /\ /\ realtime.channel # "null"
     /\ status = "SUBSCRIBED" => realtime.channel \in {"joining", "errored"}
     /\ status \in ErrorStatuses => realtime.errorCountRef < MaxPushErrors
     /\ LET r == handleConnectionState(realtime, connectionMode, SubscribeStatus(status), now)
            ch == IF status = "SUBSCRIBED" THEN "joined"
                  ELSE IF status = "CLOSED" THEN "closed" ELSE "errored"
        IN Commit(r.cm, phase, [r.rt EXCEPT !.channel = ch], polling, r.notified)
     /\ lastSignalAt' = IF status \in ErrorStatuses THEN now ELSE lastSignalAt
     /\ UNCHANGED <<now, sessionId, loads>>

SubscribeCallback ==
  \E status \in {"SUBSCRIBED"} \cup ErrorStatuses : OnSubscribeStatus(status)

\* the postgres_changes listener for sessions UPDATE: handleRealtimeSessionUpdate
RealtimeSessionUpdate ==
  /\ UNCHANGED <<dataVars, mergeVars, extVars>>
  /\ \E ph \in CtlPhases :
       /\ realtime.channel = "joined"
       /\ Commit(connectionMode, ph, realtime, polling, FALSE)
       /\ UNCHANGED <<now, sessionId, loads, lastSignalAt>>

\* the auto-recovery setTimeout fires; its 30 s are not measured against now:
\* a pending timer may fire at any step
RecoveryTimerFires ==
  /\ UNCHANGED <<dataVars, mergeVars, extVars>>
  /\ /\ recoveryTimer
     /\ Commit(RecoveryUpdate(connectionMode), phase, realtime, polling, FALSE)
     /\ UNCHANGED <<now, sessionId, loads, lastSignalAt>>

\* a poll timer fires: executePoll().then(scheduleNextPoll)
PollTimerFires ==
  /\ UNCHANGED <<dataVars, mergeVars, extVars>>
  /\ \E tm \in polling.timers : \E stale \in BOOLEAN :
       /\ Len(polling.inflight) < MaxInflight
       /\ polling' = executePoll([polling EXCEPT !.timers = @ \ {tm}], tm.interval, stale, now)
       /\ UNCHANGED <<now, sessionId, loads, phase, connectionMode, recoveryTimer, realtime,
                      lastSignalAt>>

Remove(s, i) == [j \in 1 .. Len(s) - 1 |-> IF j < i THEN s[j] ELSE s[j + 1]]

\* a poll fetch settles: the snapshot takes the fetched phase, executePoll resumes
PollFetchSettles ==
  /\ UNCHANGED <<dataVars, mergeVars, extVars>>
  /\ \E i \in 1 .. Len(polling.inflight) : \E ok \in BOOLEAN : \E ph \in CtlPhases :
       LET f == polling.inflight[i]
           \* loadSessionData catches its errors: a full reload never rejects
           seenOk == ok \/ f.kind \in {"full", "manual"}
           ph2 == IF ok THEN ph ELSE phase
           p0 == [polling EXCEPT !.inflight = Remove(@, i),
                                 !.log.fullLoaded = @ \/ (ok /\ f.kind \in {"full", "manual"})]
           p1 == IF f.kind = "manual" THEN RefreshSettled(p0, seenOk)
                 ELSE PollSettled(p0, f, seenOk)
       IN /\ seenOk \/ polling.consecutiveErrorsRef < MaxErrors
          /\ Commit(connectionMode, ph2, realtime, p1, FALSE)
          /\ UNCHANGED <<now, sessionId, loads, lastSignalAt>>

\* the UI calls refetch (polling.manualRefresh)
ManualRefresh ==
  /\ UNCHANGED <<dataVars, mergeVars, extVars>>
  /\ /\ polling.log.calls < MaxRefresh
     /\ Len(polling.inflight) < MaxInflight
     /\ polling' = [manualRefresh(polling, PollingEnabled(connectionMode, sessionId), sessionId)
                      EXCEPT !.log.calls = @ + 1]
     /\ UNCHANGED <<now, sessionId, loads, phase, connectionMode, recoveryTimer, realtime,
                    lastSignalAt>>

SessionIds == {"s1", "s2"}

\* the sessionId option changes: the initial-load, subscription and polling effects re-run
SessionChanges ==
  /\ UNCHANGED <<dataVars, mergeVars, retryVars, txVars>>
  /\ \E sid2 \in (SessionIds \cup {NoSession}) \ {sessionId} :
       /\ sid2 # NoSession => loads < MaxLoads
       /\ sessionId' = sid2
       /\ loads' = IF sid2 # NoSession THEN loads + 1 ELSE loads
       /\ loadSids' = IF sid2 # NoSession THEN Append(loadSids, sid2) ELSE loadSids
       \* setSession(null) without a session id; otherwise the snapshot stays
       /\ snapshotOf' = IF sid2 = NoSession THEN NoSession ELSE snapshotOf
       \* setSession(null) when there is no session id: session?.phase || "lobby"
       /\ CommitProps(sid2, FALSE, connectionMode,
                      IF sid2 = NoSession THEN "lobby" ELSE phase, realtime, polling, FALSE)
       /\ UNCHANGED <<now, lastSignalAt>>

\* the topics / questions options change: loadSessionData, handleFullReload and the
\* push callbacks built on it get new identities; the initial-load effect and the
\* subscription effect re-run
InputsChange ==
  /\ UNCHANGED <<dataVars, mergeVars, retryVars, txVars>>
  /\ /\ sessionId # NoSession
     /\ loads < MaxLoads
     /\ loads' = loads + 1
     /\ loadSids' = Append(loadSids, sessionId)
     /\ UNCHANGED snapshotOf
     /\ CommitProps(sessionId, TRUE, connectionMode, phase, realtime, polling, FALSE)
     /\ UNCHANGED <<now, sessionId, lastSignalAt>>

\* a loadSessionData call of the initial-load effect settles
LoadSettles ==
  /\ UNCHANGED <<dataVars, mergeVars, retryVars, txVars>>
  /\ \E ok \in BOOLEAN : \E ph \in CtlPhases : \E i \in 1 .. Len(loadSids) :
       /\ loads > 0
       /\ loads' = loads - 1
       /\ loadSids' = Remove(loadSids, i)
       \* setSession({ id: sessionData.id, ... }) with the rows of the sid asked for
       /\ snapshotOf' = IF ok THEN loadSids[i] ELSE snapshotOf
       /\ Commit(connectionMode, IF ok THEN ph ELSE phase, realtime, polling, FALSE)
       /\ UNCHANGED <<now, sessionId, lastSignalAt>>

\* the subscribe callback of a channel that was removed fires: a late
\* SUBSCRIBED, or the CLOSED that follows removeChannel.  The closure calls
\* handleConnectionState without looking at channelRef
OnStaleStatus(status) ==
  /\ UNCHANGED <<dataVars, mergeVars, extVars>>
  /\ /\ realtime.removed
     /\ status \in ErrorStatuses => realtime.errorCountRef < MaxPushErrors
     /\ LET r == handleConnectionState(realtime, connectionMode, SubscribeStatus(status), now)
        IN Commit(r.cm, phase, r.rt, polling, r.notified)
     /\ lastSignalAt' = IF status \in ErrorStatuses THEN now ELSE lastSignalAt
     /\ UNCHANGED <<now, sessionId, loads>>

StaleSubscribeCallback ==
  \E status \in {"SUBSCRIBED", "CLOSED"} : OnStaleStatus(status)

CtlNext ==
  \/ Tick
  \/ SubscribeCallback
  \/ RealtimeSessionUpdate
  \/ RecoveryTimerFires
  \/ PollTimerFires
  \/ PollFetchSettles

\* --------------------------------------------------------------- retry loop
\* usePolling alone, enabled from the mount on (the build with
\* VITE_REALTIME_ENABLED = "false": mode polling, no channel, no recovery
\* timer), with the time since lastFullFetchRef measured in ms.
FULL_RELOAD_AGE == 30000

\* the duration of a poll fetch, ms
Latencies == {0, 1000}

\* ages above FULL_RELOAD_AGE are all alike to the code
Age(a) == Min(a, FULL_RELOAD_AGE + 1)

RetryInit ==
  /\ now = StartTime
  /\ sessionId = "s1"
  /\ loads = 0
  /\ phase = "lobby"
  /\ connectionMode = [mode |-> "polling", realtimeHealth |-> "healthy",
                       lastModeSwitch |-> NoTime]
  /\ recoveryTimer = FALSE
  /\ realtime = [connectionState |-> "DISCONNECTED", errorCountRef |-> 0,
                 lastErrorTimestampRef |-> 0, channel |-> "null", channels |-> <<>>,
                 removed |-> FALSE]
  \* the polling effect has run: executePoll is at its await
  /\ polling = [isPolling |-> TRUE, connectionHealth |-> "healthy", timeoutRef |-> 0,
                isPollingRef |-> TRUE, isMountedRef |-> TRUE, consecutiveErrorsRef |-> 0,
                lastFullFetchRef |-> NoTime, timers |-> {},
                inflight |-> <<[kind |-> "full", at |-> SomeTime,
                                interval |-> getIntervalForPhase("lobby")]>>,
                log |-> [errors |-> 0, delay |-> 0, recovered |-> FALSE,
                         fullLoaded |-> FALSE, calls |-> 0]]
  /\ lastSignalAt = 0
  /\ sinceFull = 0
  /\ allFailed = TRUE

\* the poll timer fires after its delay: executePoll().then(scheduleNextPoll)
RetryTimerFires ==
  /\ UNCHANGED <<dataVars, mergeVars, teardownVars, txVars>>
  /\ \E tm \in polling.timers :
       /\ tm.id = polling.timeoutRef
       /\ sinceFull' = Age(sinceFull + tm.delay)
       /\ polling' = executePoll([polling EXCEPT !.timers = @ \ {tm}], tm.interval,
                                 sinceFull' > FULL_RELOAD_AGE, now)
       /\ UNCHANGED <<now, sessionId, loads, phase, connectionMode, recoveryTimer, realtime,
                      lastSignalAt, allFailed>>

\* the fetch of the poll cycle settles after d ms; the phase fetched is the
\* phase held, so no effect re-runs
RetryFetchSettles ==
  /\ UNCHANGED <<dataVars, mergeVars, teardownVars, txVars>>
  /\ \E ok \in BOOLEAN : \E d \in Latencies :
       /\ Len(polling.inflight) = 1
       /\ LET f == polling.inflight[1]
              \* loadSessionData catches its errors: a full reload never rejects
              seenOk == ok \/ f.kind = "full"
              p0 == [polling EXCEPT !.inflight = <<>>,
                                    !.log.fullLoaded = @ \/ (ok /\ f.kind = "full")]
          IN /\ polling' = PollSettled(p0, f, seenOk)
             \* lastFullFetchRef takes the Date read before the await
             /\ sinceFull' = IF f.kind = "full" THEN d ELSE Age(sinceFull + d)
       /\ allFailed' = (allFailed /\ ~ok)
       /\ UNCHANGED <<now, sessionId, loads, phase, connectionMode, recoveryTimer, realtime,
                      lastSignalAt>>

RetryNext == RetryTimerFires \/ RetryFetchSettles

\* ---------------------------------------------------------- transport switch
\* The snapshot across mode switches.  The push error signals that lead to a
\* fallback and the timers of the poll loop are those of the control plane;
\* here a fallback is one step and a poll cycle is the fetch it starts.
SwitchInit ==
  /\ now = StartTime
  /\ sessionId = "s1"
  /\ loads = 0
  /\ phase = "lobby"
  \* the channel has been acknowledged: handleConnectionState("CONNECTED")
  /\ connectionMode = [mode |-> "realtime", realtimeHealth |-> "healthy",
                       lastModeSwitch |-> SomeTime]
  /\ recoveryTimer = FALSE
  /\ realtime = [connectionState |-> "CONNECTED", errorCountRef |-> 0,
                 lastErrorTimestampRef |-> 0, channel |-> "joined",
                 channels |-> <<"s1">>, removed |-> FALSE]
  /\ polling = [isPolling |-> FALSE, connectionHealth |-> "healthy", timeoutRef |-> 0,
                isPollingRef |-> FALSE, isMountedRef |-> TRUE, consecutiveErrorsRef |-> 0,
                lastFullFetchRef |-> NoTime, timers |-> {}, inflight |-> <<>>,
                log |-> [errors |-> 0, delay |-> 0, recovered |-> FALSE,
                         fullLoaded |-> FALSE, calls |-> 0]]
  /\ lastSignalAt = 0
  /\ clock = 0
  /\ srv = [guests |-> {}, votes |-> {}, picks |-> {},
            session |-> [phase |-> "lobby", current_round |-> 1, updated_at |-> 0]]
  /\ events = {}
  /\ delivered = {}
  \* the initial load has resolved
  /\ session = loadSessionData(srv)
  /\ lastPollTime = 0
  /\ lastSessionUpdate = 0
  /\ fetches = {}

\* a guest joins; the publication streams the INSERT to a joined channel only
SwGuestJoins ==
  /\ UNCHANGED <<ctlVars, mergeVars, extVars>>
  /\ \E g \in DGuests :
       /\ clock < MaxChanges
       /\ \A r \in srv.guests : r.id # g
       /\ \A h \in DGuests : h < g => \E r \in srv.guests : r.id = h
       /\ clock' = clock + 1
       /\ srv' = [srv EXCEPT !.guests = @ \cup {JoinRow(g, clock')}]
       /\ events' = IF realtime.channel = "joined"
                    THEN events \cup {Payload("guests", "INSERT", JoinRow(g, clock'))}
                    ELSE events
       /\ UNCHANGED <<delivered, session, lastPollTime, lastSessionUpdate, fetches>>

\* a streamed INSERT reaches the guests listener of the joined channel
SwOnGuestInsert ==
  /\ UNCHANGED <<ctlVars, mergeVars, extVars>>
  /\ \E e \in events \ delivered :
       /\ realtime.channel = "joined"
       /\ Deliver(e, "guests", "INSERT")
       /\ session' = handleRealtimeGuestInsert(session, e.new)
       /\ UNCHANGED <<lastPollTime, lastSessionUpdate, fetches>>

\* the fetch a poll cycle starts: executePoll's shouldFullReload
PollFetch(stale) ==
  IF polling.lastFullFetchRef = NoTime \/ stale
  THEN [kind |-> "full", data |-> loadSessionData(srv), viaPoll |-> TRUE]
  ELSE [kind |-> "incremental", data |-> IncrementalFetch(srv, lastPollTime),
        lsu |-> lastSessionUpdate]

\* the third counted push error: mode polling, the channel is removed with
\* what it had not handed over yet, the polling effect runs its first executePoll
SwFallback ==
  /\ UNCHANGED <<mergeVars, extVars>>
  /\ \E stale \in BOOLEAN :
       /\ connectionMode.mode = "realtime"
       /\ fetches = {}
       /\ connectionMode' = handleConnectionStateChange(connectionMode, "polling", now)
       /\ realtime' = [RealtimeCleanup(realtime) EXCEPT
                         !.connectionState = "CLOSED",
                         !.errorCountRef = MAX_ERRORS_BEFORE_FALLBACK]
       /\ recoveryTimer' = TRUE
       /\ polling' = [polling EXCEPT !.isPolling = TRUE]
       /\ events' = delivered
       /\ fetches' = {PollFetch(stale)}
       /\ UNCHANGED <<now, sessionId, loads, phase, lastSignalAt, clock, srv, delivered,
                      session, lastPollTime, lastSessionUpdate>>

\* the auto-recovery timer: mode realtime, the polling effect is cleaned up
\* (a fetch in flight goes on), a new channel is created
SwRecover ==
  /\ UNCHANGED <<dataVars, mergeVars, extVars>>
  /\ /\ connectionMode.mode = "polling"
     /\ recoveryTimer
     /\ connectionMode' = RecoveryUpdate(connectionMode)
     /\ realtime' = RealtimeSetup(realtime, sessionId)
     /\ recoveryTimer' = FALSE
     /\ polling' = [polling EXCEPT !.isPolling = FALSE]
     /\ UNCHANGED <<now, sessionId, loads, phase, lastSignalAt>>

\* the new channel is acknowledged
SwSubscribed ==
  /\ UNCHANGED <<dataVars, mergeVars, extVars>>
  /\ /\ realtime.channel = "joining"
     /\ realtime' = [realtime EXCEPT !.channel = "joined", !.connectionState = "CONNECTED",
                                     !.errorCountRef = 0, !.lastErrorTimestampRef = 0]
     /\ connectionMode' = handleConnectionStateChange(connectionMode, "realtime", now)
     /\ UNCHANGED <<now, sessionId, loads, phase, recoveryTimer, polling, lastSignalAt>>

\* the poll timer fires in polling mode and no poll is in progress
SwPoll ==
  /\ UNCHANGED <<ctlVars, mergeVars, extVars>>
  /\ \E stale \in BOOLEAN :
       /\ connectionMode.mode = "polling"
       /\ fetches = {}
       /\ fetches' = {PollFetch(stale)}
       /\ UNCHANGED <<clock, srv, events, delivered, session, lastPollTime, lastSessionUpdate>>

\* the full reload of a poll cycle resolves with the rows it read
SwResolveFull ==
  /\ UNCHANGED <<mergeVars, extVars>>
  /\ \E f \in fetches :
       /\ f.kind = "full"
       /\ fetches' = fetches \ {f}
       /\ session' = f.data
       /\ lastPollTime' = clock
       /\ polling' = [polling EXCEPT !.lastFullFetchRef = SomeTime]
       /\ UNCHANGED <<now, sessionId, loads, phase, connectionMode, recoveryTimer, realtime,
                      lastSignalAt, clock, srv, events, delivered, lastSessionUpdate>>

\* the incremental poll of a poll cycle resolves with the rows it read
SwResolveIncremental ==
  /\ UNCHANGED <<ctlVars, mergeVars, extVars>>
  /\ \E f \in fetches :
       /\ f.kind = "incremental"
       /\ fetches' = fetches \ {f}
       /\ session' = IncrementalUpdate(session, f.data, f.lsu)
       /\ lastSessionUpdate' = IF MetadataNewer(f.data, f.lsu)
                               THEN f.data.sessionUpdate.updated_at ELSE lastSessionUpdate
       /\ lastPollTime' = clock
       /\ UNCHANGED <<clock, srv, events, delivered>>

SwitchNext ==
  \/ SwGuestJoins \/ SwOnGuestInsert
  \/ SwFallback \/ SwRecover \/ SwSubscribed
  \/ SwPoll \/ SwResolveFull \/ SwResolveIncremental

\* ------------------------------------------------------------- merge inputs
SeqsUpTo(S, n) == UNION {[1 .. k -> S] : k \in 0 .. n}

MGuests == [id : DGuests, hasVoted : BOOLEAN]
MVoteRows == [guest_id : DGuests, topic_id : DTopics]
MVotes == UNION {[D -> SeqsUpTo(DTopics, MaxLen)] : D \in SUBSET DGuests}
MPicks == [questionId : 1 .. 2, round : {1}]
\* snapshots and poll results of the incremental poll
MSessions ==
  {[id |-> 1, guests |-> gs, votes |-> <<>>, pickedQuestions |-> ps,
    phase |-> ph, currentRound |-> 1, updated_at |-> 1] :
      gs \in {<<>>, <<TransformGuestRow(JoinRow(1, 1))>>},
      ps \in SeqsUpTo(MPicks, 1), ph \in {"lobby", "voting"}}
MPollResults ==
  {[data |-> [sessionUpdate |-> [phase |-> "voting", current_round |-> 2, updated_at |-> u],
              newGuests |-> ng, newVotes |-> nv, newPicks |-> <<>>],
    lsu |-> 1] :
      u \in 0 .. 2,
      ng \in {<<>>, <<JoinRow(2, 2)>>},
      nv \in {<<>>, <<[guest_id |-> 1, topic_id |-> 1, created_at |-> 2]>>}}

\* picked_questions rows with their embedded rows, present or missing
MPickRows == [question_id : 1 .. 2, round : {1}, questions : JoinedRows, guests : JoinedRows]
MPollRows ==
  {[data |-> [sessionUpdate |-> [phase |-> "voting", current_round |-> 1, updated_at |-> 1],
              newGuests |-> ng, newVotes |-> <<>>, newPicks |-> np],
    lsu |-> 1] :
      ng \in {<<>>, <<JoinRow(2, 2)>>}, np \in SeqsUpTo(MPickRows, MaxLen)}
MLoadRows ==
  {[sessionData |-> [phase |-> "voting", current_round |-> 1, updated_at |-> 1],
    guestsData |-> gd, pickedData |-> pd] :
      gd \in {<<>>, <<JoinRow(2, 2)>>}, pd \in SeqsUpTo(MPickRows, MaxLen)}

MergeIdle ==
  /\ mKind = "none" /\ mState = <<>> /\ mBatch = <<>>
  /\ mOnce = <<>> /\ mTwice = <<>> /\ mStage = 0 /\ mArgAfter = <<>>

MergeInit ==
  /\ \/ mKind = "guests" /\ mState \in SeqsUpTo(MGuests, MaxLen)
                         /\ mBatch \in SeqsUpTo(MGuests, MaxLen)
     \/ mKind = "votes" /\ mState \in MVotes /\ mBatch \in SeqsUpTo(MVoteRows, MaxLen)
     \/ mKind = "picks" /\ mState \in SeqsUpTo(MPicks, MaxLen)
                        /\ mBatch \in SeqsUpTo(MPicks, MaxLen)
     \/ mKind = "poll" /\ mState \in MSessions /\ mBatch \in MPollResults
     \/ mKind = "pollRows" /\ mState \in MSessions /\ mBatch \in MPollRows
     \/ mKind = "loadRows" /\ mState \in MSessions /\ mBatch \in MLoadRows
  /\ mOnce = <<>> /\ mTwice = <<>> /\ mStage = 0 /\ mArgAfter = <<>>

\* the merge function (or the poll updater) for the drawn kind
Merge(kind, s, b) ==
  CASE kind = "guests" -> mergeGuests(s, b)
    [] kind = "votes" -> mergeVotes(s, b)
    [] kind = "picks" -> mergePickedQuestions(s, b)
    [] kind = "poll" -> IncrementalUpdate(s, b.data, b.lsu)
    [] kind = "pollRows" -> IncrementalUpdateRows(s, b.data, b.lsu)
    [] kind = "loadRows" -> LoadRows(s, b)

\* the first argument as the caller finds it after the call: existing.map,
\* the spreads and filter build new arrays and assign to no element of the old
\* ones; mergeVotes pushes onto the arrays it shares with existing
ArgAfterMerge(kind, s, b) ==
  CASE kind = "votes" -> mergeVotesExisting(s, b)
    [] kind = "poll" ->
         IF s = NullSession \/ b.data.newVotes = <<>> THEN s
         ELSE [s EXCEPT !.votes = mergeVotesExisting(@, b.data.newVotes)]
    [] OTHER -> s

MergeOnce ==
  /\ UNCHANGED <<ctlVars, dataVars, extVars>>
  /\ /\ mStage = 0
     /\ mOnce' = Merge(mKind, mState, mBatch)
     /\ mArgAfter' = ArgAfterMerge(mKind, mState, mBatch)
     /\ mStage' = 1
     /\ UNCHANGED <<mKind, mState, mBatch, mTwice>>

MergeTwice ==
  /\ UNCHANGED <<ctlVars, dataVars, extVars>>
  /\ /\ mStage = 1
     /\ mTwice' = Merge(mKind, mOnce, mBatch)
     /\ mArgAfter' = ArgAfterMerge(mKind, mOnce, mBatch)
     /\ mStage' = 2
     /\ UNCHANGED <<mKind, mState, mBatch, mOnce>>

MergeNext == MergeOnce \/ MergeTwice

\* ------------------------------------------------------- picking a question
\* question_pool rows of the session, by position; the question of a row is
\* identified with its position (populate_question_pool inserts each once)
PoolSize == 2
MaxPicks == 2

PoolPositions == 1 .. PoolSize

PickInit ==
  /\ question_pool = [e \in PoolPositions |-> FALSE]
  /\ poolLock = [e \in PoolPositions |-> 0]
  /\ picked_questions = <<>>
  /\ guestPicked = [g \in DGuests |-> 0]
  /\ pickCalls = [g \in DGuests |->
                    [pc |-> "idle", entry |-> 0, left |-> MaxPicks, result |-> "none"]]

\* .eq("picked", false).order("position").limit(1): 0 when no row is left
FirstOf(S) == IF S = {} THEN 0 ELSE CHOOSE e \in S : \A f \in S : e <= f

NextUnpicked(pool) == FirstOf({e \in PoolPositions : ~pool[e]})

\* ... FOR UPDATE SKIP LOCKED: rows locked by another transaction are passed over
NextUnlocked(pool, lock) == FirstOf({e \in PoolPositions : ~pool[e] /\ lock[e] = 0})

\* pickQuestion: await getNextQuestion(sessionId)
GetNextQuestion(g) ==
  /\ UNCHANGED besidesPick
  /\ pickCalls[g].pc = "idle"
  /\ pickCalls[g].left > 0
  /\ LET e == NextUnpicked(question_pool) IN
       pickCalls' = [pickCalls EXCEPT ![g] =
                       IF e = 0
                         THEN [pc |-> "idle", entry |-> 0, left |-> @.left - 1,
                               result |-> "No questions available"]
                         ELSE [pc |-> "got", entry |-> e, left |-> @.left - 1,
                               result |-> "none"]]
  /\ UNCHANGED <<question_pool, poolLock, picked_questions, guestPicked>>

\* pickQuestion: question_pool.update({ picked: true }).eq("id", questionData.id);
\* the UPDATE waits while a transaction holds the lock of the row
MarkPicked(g) ==
  /\ UNCHANGED besidesPick
  /\ pickCalls[g].pc = "got"
  /\ poolLock[pickCalls[g].entry] = 0
  /\ question_pool' = [question_pool EXCEPT ![pickCalls[g].entry] = TRUE]
  /\ pickCalls' = [pickCalls EXCEPT ![g].pc = "marked"]
  /\ UNCHANGED <<poolLock, picked_questions, guestPicked>>

\* pickQuestion: picked_questions.insert({ session_id, guest_id, question_id, round })
InsertPicked(g) ==
  /\ UNCHANGED besidesPick
  /\ pickCalls[g].pc = "marked"
  /\ picked_questions' = Append(picked_questions,
                                [guest_id |-> g, question_id |-> pickCalls[g].entry])
  /\ pickCalls' = [pickCalls EXCEPT ![g].pc = "inserted"]
  /\ UNCHANGED <<question_pool, poolLock, guestPicked>>

\* pickQuestion: guests.update({ has_picked: true, picked_question_id }), return
UpdatePickedGuest(g) ==
  /\ UNCHANGED besidesPick
  /\ pickCalls[g].pc = "inserted"
  /\ guestPicked' = [guestPicked EXCEPT ![g] = pickCalls[g].entry]
  /\ pickCalls' = [pickCalls EXCEPT ![g] =
                     [pc |-> "idle", entry |-> 0, left |-> @.left, result |-> "success"]]
  /\ UNCHANGED <<question_pool, poolLock, picked_questions>>

\* pick_question_atomic: SELECT ... FOR UPDATE SKIP LOCKED, IF NOT FOUND
PickAtomicSelect(g) ==
  /\ UNCHANGED besidesPick
  /\ pickCalls[g].pc = "idle"
  /\ pickCalls[g].left > 0
  /\ LET e == NextUnlocked(question_pool, poolLock) IN
       /\ pickCalls' = [pickCalls EXCEPT ![g] =
                          IF e = 0
                            THEN [pc |-> "idle", entry |-> 0, left |-> @.left - 1,
                                  result |-> "NO_QUESTIONS"]
                            ELSE [pc |-> "tx", entry |-> e, left |-> @.left - 1,
                                  result |-> "none"]]
       /\ poolLock' = IF e = 0 THEN poolLock ELSE [poolLock EXCEPT ![e] = g]
  /\ UNCHANGED <<question_pool, picked_questions, guestPicked>>

\* pick_question_atomic: the three writes and the commit of the transaction
PickAtomicCommit(g) ==
  /\ UNCHANGED besidesPick
  /\ pickCalls[g].pc = "tx"
  /\ question_pool' = [question_pool EXCEPT ![pickCalls[g].entry] = TRUE]
  /\ picked_questions' = Append(picked_questions,
                                [guest_id |-> g, question_id |-> pickCalls[g].entry])
  /\ guestPicked' = [guestPicked EXCEPT ![g] = pickCalls[g].entry]
  /\ poolLock' = [poolLock EXCEPT ![pickCalls[g].entry] = 0]
  /\ pickCalls' = [pickCalls EXCEPT ![g] =
                     [pc |-> "idle", entry |-> 0, left |-> @.left, result |-> "success"]]

\* pick_question_atomic: EXCEPTION WHEN OTHERS, the writes of the block are undone
PickAtomicRaise(g) ==
  /\ UNCHANGED besidesPick
  /\ pickCalls[g].pc = "tx"
  /\ poolLock' = [poolLock EXCEPT ![pickCalls[g].entry] = 0]
  /\ pickCalls' = [pickCalls EXCEPT ![g] =
                     [pc |-> "idle", entry |-> 0, left |-> @.left, result |-> "SQLSTATE"]]
  /\ UNCHANGED <<question_pool, picked_questions, guestPicked>>

PickNext ==
  \/ \E g \in DGuests : GetNextQuestion(g)
  \/ \E g \in DGuests : MarkPicked(g)
  \/ \E g \in DGuests : InsertPicked(g)
  \/ \E g \in DGuests : UpdatePickedGuest(g)
  \/ \E g \in DGuests : PickAtomicSelect(g)
  \/ \E g \in DGuests : PickAtomicCommit(g)
  \/ \E g \in DGuests : PickAtomicRaise(g)

\* ------------------------------------------------------------------- voting
\* submit_vote_atomic calls for one guest, each a transaction at the default
\* isolation level (READ COMMITTED): a statement sees what is committed
MaxVoteCalls == 2

VoteCallers == 1 .. MaxVoteCalls

\* p_topic_ids: one or two topics, none repeated
TopicLists == {l \in SeqsUpTo(DTopics, 2) :
                 Len(l) >= 1 /\ \A i, j \in 1 .. Len(l) : i # j => l[i] # l[j]}

NoVoteCall == [pc |-> "idle", topics |-> <<>>, done |-> 0, result |-> "none"]

VoteInit ==
  /\ votes = {}
  /\ has_voted = FALSE
  /\ voteCalls = [c \in VoteCallers |-> NoVoteCall]

\* the topic ids a transaction in flight has inserted and not committed
Inserted(call) ==
  IF call.pc \in {"insert", "update", "commit"}
    THEN {call.topics[i] : i \in 1 .. call.done}
    ELSE {}

\* the transaction whose uncommitted row makes the INSERT of topic t wait
BlockerOf(c, t) == {d \in VoteCallers \ {c} : t \in Inserted(voteCalls[d])}

NextTopic(call) == call.topics[call.done + 1]

\* submit_vote_atomic: PERFORM 1 FROM guests WHERE ... has_voted = true
VoteCheck(c, l) ==
  /\ UNCHANGED besidesVote
  /\ voteCalls[c].pc = "idle"
  /\ voteCalls[c].result = "none"
  /\ voteCalls' = [voteCalls EXCEPT ![c] =
                     IF has_voted
                       THEN [NoVoteCall EXCEPT !.topics = l, !.result = "ALREADY_VOTED"]
                       ELSE [pc |-> "insert", topics |-> l, done |-> 0,
                             result |-> "none"]]
  /\ UNCHANGED <<votes, has_voted>>

\* submit_vote_atomic: one INSERT of the FOREACH loop; UNIQUE(session_id,
\* guest_id, topic_id) raises on a committed row and waits on an uncommitted one
VoteInsert(c) ==
  /\ UNCHANGED besidesVote
  /\ voteCalls[c].pc = "insert"
  /\ BlockerOf(c, NextTopic(voteCalls[c])) = {}
  /\ voteCalls' = [voteCalls EXCEPT ![c] =
                     IF NextTopic(@) \in votes
                       THEN [@ EXCEPT !.pc = "idle", !.done = 0, !.result = "23505"]
                       ELSE [@ EXCEPT !.done = @ + 1,
                                      !.pc = IF voteCalls[c].done + 1 = Len(voteCalls[c].topics)
                                               THEN "update" ELSE "insert"]]
  /\ UNCHANGED <<votes, has_voted>>

\* two transactions each waiting for a row of the other: the database aborts
\* one of them, which ends in EXCEPTION WHEN OTHERS
VoteDeadlock(c) ==
  /\ UNCHANGED besidesVote
  /\ voteCalls[c].pc = "insert"
  /\ \E d \in BlockerOf(c, NextTopic(voteCalls[c])) :
       /\ voteCalls[d].pc = "insert"
       /\ c \in BlockerOf(d, NextTopic(voteCalls[d]))
  /\ voteCalls' = [voteCalls EXCEPT ![c] =
                     [@ EXCEPT !.pc = "idle", !.done = 0, !.result = "40P01"]]
  /\ UNCHANGED <<votes, has_voted>>

\* submit_vote_atomic: UPDATE guests SET has_voted = true; the row lock is
\* held until the end of the transaction, another UPDATE waits for it
VoteUpdateGuest(c) ==
  /\ UNCHANGED besidesVote
  /\ voteCalls[c].pc = "update"
  /\ \A d \in VoteCallers : voteCalls[d].pc # "commit"
  /\ voteCalls' = [voteCalls EXCEPT ![c].pc = "commit"]
  /\ UNCHANGED <<votes, has_voted>>

\* submit_vote_atomic: RETURN success, the transaction commits
VoteCommit(c) ==
  /\ UNCHANGED besidesVote
  /\ voteCalls[c].pc = "commit"
  /\ votes' = votes \cup Inserted(voteCalls[c])
  /\ has_voted' = TRUE
  /\ voteCalls' = [voteCalls EXCEPT ![c] =
                     [@ EXCEPT !.pc = "idle", !.done = 0, !.result = "success"]]

VoteNext ==
  \/ \E c \in VoteCallers, l \in TopicLists : VoteCheck(c, l)
  \/ \E c \in VoteCallers : VoteInsert(c)
  \/ \E c \in VoteCallers : VoteDeadlock(c)
  \/ \E c \in VoteCallers : VoteUpdateGuest(c)
  \/ \E c \in VoteCallers : VoteCommit(c)

\* --------------------------------------------------------- ending a session
MaxEndCalls == 2
MaxEndCallers == 2

EndCallers == 1 .. MaxEndCallers

\* the ids a caller passes: two sessions that exist and one that does not
EndIds == {"s1", "s2", "s3"}

EndInit ==
  /\ sessions = [sid \in {"s1", "s2"} |->
                   [phase |-> IF sid = "s1" THEN "questionPhase" ELSE "lobby",
                    end_time |-> FALSE]]
  /\ session_records = <<>>
  /\ endCalls = [c \in EndCallers |->
                   [pc |-> "idle", sid |-> NoSession, left |-> MaxEndCalls,
                    result |-> "none"]]

\* the transaction holding the row lock of session sid
EndLockHeld(sid) == \E d \in EndCallers : endCalls[d].pc = "locked" /\ endCalls[d].sid = sid

EndReturn(call, res) == [call EXCEPT !.pc = "idle", !.result = res]

\* an exception handler that keeps the UPDATE of the sessions row
EndException_keepsUpdate(ss, recs, sid) ==
  <<[ss EXCEPT ![sid] = [phase |-> "ended", end_time |-> TRUE]], recs>>

\* EXCEPTION WHEN OTHERS: the block is rolled back to its start, the tables
\* are those of the last commit
EndException(ss, recs, sid) == <<ss, recs>>

\* end_session_atomic: SELECT * INTO v_session ... FOR UPDATE, IF NOT FOUND,
\* IF v_session.phase = 'ended'; the SELECT waits for the lock of the row
EndSessionLock(c, sid) ==
  /\ UNCHANGED besidesEnd
  /\ endCalls[c].pc = "idle"
  /\ endCalls[c].left > 0
  /\ ~EndLockHeld(sid)
  /\ endCalls' = [endCalls EXCEPT ![c] =
                    IF sid \notin DOMAIN sessions
                      THEN [pc |-> "idle", sid |-> sid, left |-> @.left - 1,
                            result |-> "SESSION_NOT_FOUND"]
                      ELSE IF sessions[sid].phase = "ended"
                        THEN [pc |-> "idle", sid |-> sid, left |-> @.left - 1,
                              result |-> "ALREADY_ENDED"]
                        ELSE [pc |-> "locked", sid |-> sid, left |-> @.left - 1,
                              result |-> "none"]]
  /\ UNCHANGED <<sessions, session_records>>

\* end_session_atomic: UPDATE sessions, INSERT INTO session_records, RETURN;
\* the INSERT raises unique_violation when a row with the id exists
EndSessionCommit(c) ==
  /\ UNCHANGED besidesEnd
  /\ endCalls[c].pc = "locked"
  /\ LET sid == endCalls[c].sid
         dup == \E i \in 1 .. Len(session_records) : session_records[i] = sid
         kept == EndException(sessions, session_records, sid)
     IN  IF dup
           THEN /\ sessions' = kept[1]
                /\ session_records' = kept[2]
                /\ endCalls' = [endCalls EXCEPT ![c] = EndReturn(@, "23505")]
           ELSE /\ sessions' = [sessions EXCEPT ![sid] =
                                  [phase |-> "ended", end_time |-> TRUE]]
                /\ session_records' = Append(session_records, sid)
                /\ endCalls' = [endCalls EXCEPT ![c] = EndReturn(@, "success")]

\* end_session_atomic: a statement after the lock raises (after the UPDATE or
\* before it), EXCEPTION WHEN OTHERS returns the error
EndSessionRaise(c) ==
  /\ UNCHANGED besidesEnd
  /\ endCalls[c].pc = "locked"
  /\ LET kept == EndException(sessions, session_records, endCalls[c].sid) IN
       /\ sessions' = kept[1]
       /\ session_records' = kept[2]
  /\ endCalls' = [endCalls EXCEPT ![c] = EndReturn(@, "SQLSTATE")]

EndNext ==
  \/ \E c \in EndCallers, sid \in EndIds : EndSessionLock(c, sid)
  \/ \E c \in EndCallers : EndSessionCommit(c)
  \/ \E c \in EndCallers : EndSessionRaise(c)

\* ----------------------------------------------------------- the guest view
AppView ==
  {"home", "adminLogin", "admin", "createSession", "joinSession", "hostLobby",
   "guestLobby", "hostVoting", "guestVoting", "hostTopicResults", "topicReveal",
   "hostQuestionPhase", "guestQuestionPhase", "guestEnded", "hostEnded"}

NoPhase == "null"

MaxSyncUpdates == 3

ViewInit ==
  /\ view = "home"
  /\ currentGuestId = 0
  /\ hookPhase = NoPhase
  /\ syncPending = FALSE
  /\ syncUpdates = 0

\* a map that sends the question phase to the voting view
phaseToViewMap_noQuestionPhase(ph) ==
  IF ph = "lobby" THEN "guestLobby" ELSE IF ph = "ended" THEN "guestEnded" ELSE "guestVoting"

\* phaseToViewMap: Record<SessionPhase, AppView>
phaseToViewMap(ph) ==
  CASE ph = "lobby" -> "guestLobby"
    [] ph = "voting" -> "guestVoting"
    [] ph = "topicResults" -> "guestVoting"
    [] ph = "topicReveal" -> "guestVoting"
    [] ph = "questionPhase" -> "guestQuestionPhase"
    [] ph = "ended" -> "guestEnded"

\* a commit schedules the effect when one of [state.currentGuestId,
\* sessionHook.session?.phase, state.view] differs from the render before it
DepsChanged(g, ph, v) == g # currentGuestId \/ ph # hookPhase \/ v # view

\* a state update from outside the effect, rendered once the effects of the
\* commit before it have run
AppCommit(g, ph, v) ==
  /\ UNCHANGED besidesView
  /\ ~syncPending
  /\ currentGuestId' = g
  /\ hookPhase' = ph
  /\ view' = v
  /\ syncPending' = DepsChanged(g, ph, v)
  /\ syncUpdates' = 0

\* setView, and the view updates of login, createSession, advancePhase, ...
SetView(v) == AppCommit(currentGuestId, hookPhase, v)

\* joinSession: currentGuestId and the view after the guest row is inserted
JoinSession(g, ph) ==
  AppCommit(g, hookPhase, IF ph = "lobby" THEN "guestLobby" ELSE "guestVoting")

\* logout
Logout == AppCommit(0, hookPhase, "home")

\* the session hook delivers a snapshot with another phase, or null
HookPhaseChanges(ph) ==
  /\ ph # hookPhase
  /\ AppCommit(currentGuestId, ph, view)

\* the view-sync effect, and the commit of the setState it calls
GuestViewSync ==
  /\ UNCHANGED besidesView
  /\ syncPending
  /\ IF currentGuestId = 0 \/ hookPhase = NoPhase
       THEN /\ syncPending' = FALSE
            /\ UNCHANGED <<view, syncUpdates>>
       ELSE LET targetView == phaseToViewMap(hookPhase) IN
              IF view # targetView
                THEN /\ view' = targetView
                     /\ syncPending' = TRUE
                     /\ syncUpdates' = Min(syncUpdates + 1, MaxSyncUpdates)
                ELSE /\ syncPending' = FALSE
                     /\ UNCHANGED <<view, syncUpdates>>
  /\ UNCHANGED <<currentGuestId, hookPhase>>

ViewNext ==
  \/ \E v \in AppView : SetView(v)
  \/ \E g \in DGuests, ph \in Phases : JoinSession(g, ph)
  \/ Logout
  \/ \E ph \in Phases \cup {NoPhase} : HookPhaseChanges(ph)
  \/ GuestViewSync

\* ------------------------------------------------------- the recovery timer
\* The supervisor and the push hook with the delay of the auto-recovery
\* setTimeout measured.  Connectivity callbacks arrive at least
\* ERROR_DEBOUNCE_MS apart; the poll loop started by a fallback is left at its
\* first await.
RECONNECT_MS == 30000
MaxSince == 40000

RecoverSteps == {5000, 10000}

besidesRecover == <<dataVars, mergeVars, retryVars, teardownVars, pickVars, voteVars, endVars,
                   viewVars, loadVars>>

\* the auto-recovery effect: its cleanup clears the pending timer, a run in
\* polling mode arms a new one; rerun = mode or lastModeSwitch changed
RecoveryDue(left, rec2, rerun) ==
  IF ~rec2 THEN 0 ELSE IF rerun THEN RECONNECT_MS ELSE left

\* a connectivity callback (of the current channel or of a removed one) runs
\* handleConnectionState, the commit runs the effects
RcHandle(status, rt2ch) ==
  LET t == realtime.lastErrorTimestampRef + ERROR_DEBOUNCE_MS
      r == handleConnectionState(realtime, connectionMode, SubscribeStatus(status), t)
  IN /\ Commit(r.cm, phase, [r.rt EXCEPT !.channel = rt2ch], polling, r.notified)
     /\ sinceFallback' = IF connectionMode.mode = "realtime" /\ r.cm.mode = "polling"
                         THEN 0 ELSE sinceFallback
     /\ timerLeft' = RecoveryDue(timerLeft, recoveryTimer',
                                 r.notified \/ r.cm.mode # connectionMode.mode)
     /\ UNCHANGED <<now, sessionId, loads, lastSignalAt>>

\* the channel.subscribe callback of the current channel
RcStatus(status) ==
  /\ UNCHANGED besidesRecover
  /\ realtime.channel # "null"
  /\ status = "SUBSCRIBED" => realtime.channel \in {"joining", "errored"}
  /\ status \in ErrorStatuses => realtime.errorCountRef < MaxPushErrors
  /\ RcHandle(status, IF status = "SUBSCRIBED" THEN "joined"
                      ELSE IF status = "CLOSED" THEN "closed" ELSE "errored")

\* the CLOSED callback of a removed channel while the mode is polling
RcStaleClosed ==
  /\ UNCHANGED besidesRecover
  /\ realtime.removed
  /\ connectionMode.mode = "polling"
  /\ realtime.errorCountRef < MaxPushErrors
  /\ RcHandle("CLOSED", realtime.channel)

\* time passes in polling mode, up to the moment the pending timer is due
RcElapse(d) ==
  /\ UNCHANGED besidesRecover
  /\ connectionMode.mode = "polling"
  /\ recoveryTimer => d <= timerLeft
  /\ sinceFallback + d <= MaxSince
  /\ sinceFallback' = sinceFallback + d
  /\ timerLeft' = IF recoveryTimer THEN timerLeft - d ELSE timerLeft
  /\ UNCHANGED ctlVars

\* the auto-recovery setTimeout is due and fires
RcTimerFires ==
  /\ UNCHANGED besidesRecover
  /\ recoveryTimer
  /\ timerLeft = 0
  /\ Len(polling.inflight) < MaxInflight
  /\ Commit(RecoveryUpdate(connectionMode), phase, realtime, polling, FALSE)
  /\ timerLeft' = RecoveryDue(timerLeft, recoveryTimer', TRUE)
  /\ UNCHANGED <<now, sessionId, loads, lastSignalAt, sinceFallback>>

RecoverNext ==
  \/ \E status \in {"SUBSCRIBED"} \cup ErrorStatuses : RcStatus(status)
  \/ RcStaleClosed
  \/ \E d \in RecoverSteps : RcElapse(d)
  \/ RcTimerFires

\* ---------------------------------------------------------- loadSessionData
\* One call of loadSessionData query by query: sessions, guests, votes,
\* session_topics, question_pool, picked_questions.  Each await returns the
\* rows the store holds at that moment, or an error that the next line throws.
MaxLoadCalls == 2

LoadQueries == 1 .. 6

NoRows == [guests |-> {}, votes |-> {}, picks |-> {},
           session |-> [phase |-> "lobby", current_round |-> 1, updated_at |-> 0]]

\* the rows one query adds to what the call holds
QueryRows(got, db, k) ==
  CASE k = 1 -> [got EXCEPT !.session = db.session]
    [] k = 2 -> [got EXCEPT !.guests = db.guests]
    [] k = 3 -> [got EXCEPT !.votes = db.votes]
    [] k = 6 -> [got EXCEPT !.picks = db.picks]
    [] OTHER -> got

\* the catch block handing the rows of the queries before the failed one to
\* setSession
LoadCatch_partial(cur, got, k) ==
  [session |-> IF k > 1 THEN loadSessionData(got) ELSE cur,
   error |-> "Failed to load session", loading |-> FALSE]

\* query k failed: the catch block records the message, finally resets loading
LoadCatch(cur, got, k) ==
  [session |-> cur, error |-> "Failed to load session", loading |-> FALSE]

besidesLoad == <<ctlVars, mergeVars, retryVars, teardownVars, pickVars, voteVars, endVars,
                viewVars, recoverVars, clock, srv, events, delivered, lastPollTime,
                lastSessionUpdate, fetches>>

\* loadSessionData is called: setLoading(true), setError(null), first query sent
LdStart ==
  /\ UNCHANGED besidesLoad
  /\ Len(loadCalls) < MaxLoadCalls
  /\ loading' = TRUE
  /\ error' = "null"
  /\ loadCalls' = Append(loadCalls, [query |-> 1, got |-> NoRows])
  /\ UNCHANGED session

\* the query a call awaits returns its rows; after the last one the rows are
\* transformed and setSession replaces the snapshot
LdQueryReturns ==
  /\ UNCHANGED besidesLoad
  /\ \E i \in 1 .. Len(loadCalls) :
       LET c == loadCalls[i]
           got == QueryRows(c.got, srv, c.query)
       IN IF c.query < 6
          THEN /\ loadCalls' = [loadCalls EXCEPT ![i] = [query |-> c.query + 1, got |-> got]]
               /\ UNCHANGED <<session, loading, error>>
          ELSE /\ loadCalls' = Remove(loadCalls, i)
               /\ session' = loadSessionData(got)
               /\ loading' = FALSE
               /\ UNCHANGED error

\* the query a call awaits returns an error
LdQueryFails ==
  /\ UNCHANGED besidesLoad
  /\ \E i \in 1 .. Len(loadCalls) :
       LET c == loadCalls[i]
           r == LoadCatch(session, c.got, c.query)
       IN /\ loadCalls' = Remove(loadCalls, i)
          /\ session' = r.session
          /\ error' = r.error
          /\ loading' = r.loading

LoadNext ==
  \/ GuestJoins \/ SubmitVote \/ AdvancePhase
  \/ LdStart \/ LdQueryReturns \/ LdQueryFails

\* ------------------------------------------------------------ specifications
\* the variables of the retry loop while it is not under study
RetryIdle == sinceFull = 0 /\ allFailed = TRUE

\* the initial load has settled: the snapshot is the one of the session id
TeardownInit == loadSids = <<>> /\ snapshotOf = "s1"

\* the tables and the application state while they are not under study
\* no fallback has happened, no recovery timer is pending
RecoverIdle == sinceFallback = 0 /\ timerLeft = 0

LoadIdle == loading = FALSE /\ error = "null" /\ loadCalls = <<>>

TxIdle == PickInit /\ VoteInit /\ EndInit /\ ViewInit /\ RecoverIdle /\ LoadIdle

ExtIdle == RetryIdle /\ TeardownInit /\ TxIdle

Init == CtlInit /\ DataInit /\ MergeIdle /\ ExtIdle

Next == CtlNext

Spec == Init /\ [][Next]_vars

\* the control plane with the UI calling refetch
NextRefresh ==
  \/ Tick
  \/ SubscribeCallback
  \/ RealtimeSessionUpdate
  \/ RecoveryTimerFires
  \/ PollTimerFires
  \/ PollFetchSettles
  \/ ManualRefresh

SpecRefresh == Init /\ [][NextRefresh]_vars

\* the control plane under changing options, the clock standing still
NextProps ==
  \/ SubscribeCallback
  \/ RealtimeSessionUpdate
  \/ ManualRefresh
  \/ SessionChanges
  \/ InputsChange
  \/ LoadSettles

SpecProps == Init /\ [][NextProps]_vars

NextData == DataNext

SpecData == Init /\ [][NextData]_vars

InitMerge == CtlInit /\ DataInit /\ MergeInit /\ ExtIdle

NextMerge == MergeNext

SpecMerge == InitMerge /\ [][NextMerge]_vars

\* the control plane with callbacks of removed channels arriving late
NextStale ==
  \/ Tick
  \/ SubscribeCallback
  \/ StaleSubscribeCallback
  \/ RealtimeSessionUpdate
  \/ RecoveryTimerFires
  \/ PollTimerFires
  \/ PollFetchSettles

SpecStale == Init /\ [][NextStale]_vars

\* the retry loop: a pending timer fires and a fetch settles, eventually
InitRetry == RetryInit /\ TeardownInit /\ TxIdle /\ DataInit /\ MergeIdle

NextRetry == RetryNext

SpecRetry ==
  InitRetry /\ [][NextRetry]_vars /\ WF_vars(RetryTimerFires) /\ WF_vars(RetryFetchSettles)

\* the snapshot across mode switches: what is streamed is delivered, the
\* recovery timer fires, the channel is acknowledged, polls run and resolve
InitSwitch == SwitchInit /\ MergeIdle /\ ExtIdle

NextSwitch == SwitchNext

SpecSwitch ==
  /\ InitSwitch /\ [][NextSwitch]_vars
  /\ WF_vars(SwOnGuestInsert) /\ WF_vars(SwRecover) /\ WF_vars(SwSubscribed)
  /\ WF_vars(SwPoll) /\ WF_vars(SwResolveFull) /\ WF_vars(SwResolveIncremental)

\* concurrent picks, by the client-side sequence and by the stored function
NextPick == PickNext

SpecPick == Init /\ [][NextPick]_vars

\* concurrent submit_vote_atomic calls for one guest
NextVote == VoteNext

SpecVote == Init /\ [][NextVote]_vars

\* concurrent and repeated end_session_atomic calls
NextEnd == EndNext

SpecEnd == Init /\ [][NextEnd]_vars

\* the application state of one browser and its view-sync effect
NextView == ViewNext

SpecView == Init /\ [][NextView]_vars

\* the supervisor with the recovery delay measured
NextRecover == RecoverNext

SpecRecover == Init /\ [][NextRecover]_vars

\* loadSessionData against a store that changes
NextLoad == LoadNext

SpecLoad == Init /\ [][NextLoad]_vars

\* ===================================================================== claims
Mode == connectionMode.mode

TimeSinceLastError == now - realtime.lastErrorTimestampRef

PollLoopAlive(p) == Len(p.inflight) > 0 \/ p.timers # {}

\* ---- C1
ExclusiveState ==
  /\ realtime.channel # "null" => Mode = "realtime"
  /\ Mode = "polling" => realtime.channel = "null"
  /\ Mode = "realtime" => polling.timers = {}

\* C1: at most one transport is the active producer: the channel is open only
\* while mode = realtime, and while mode = realtime no poll timer is pending
\* and no poll fetch is started.
C1_OneActiveProducer ==
  [][/\ ExclusiveState'
     /\ connectionMode'.mode = "realtime" => Len(polling'.inflight) <= Len(polling.inflight)]_vars

\* ---- C2
\* C2: an error/close signal that is counted (100 ms or more after the last
\* counted one) and brings the count to three switches the mode to polling in
\* that very step, tears the channel down and enables and starts the poll loop;
\* while fewer than three errors are counted the mode is realtime.
C2_FallbackOnThirdError ==
  [][/\ \A st \in ErrorStatuses :
          (OnSubscribeStatus(st) /\ TimeSinceLastError >= ERROR_DEBOUNCE_MS) =>
            IF realtime.errorCountRef + 1 >= MAX_ERRORS_BEFORE_FALLBACK
            THEN /\ connectionMode'.mode = "polling"
                 /\ realtime'.channel = "null"
                 /\ PollingEnabled(connectionMode', sessionId')
                 /\ getIntervalForPhase(phase') # 0 =>
                      polling'.isPolling /\ PollLoopAlive(polling')
            ELSE connectionMode'.mode = "realtime" /\ realtime'.channel # "null"
     /\ realtime'.errorCountRef < MAX_ERRORS_BEFORE_FALLBACK => connectionMode'.mode = "realtime"]_vars

C2_Witness ==
  /\ Mode = "polling"
  /\ realtime.errorCountRef = MAX_ERRORS_BEFORE_FALLBACK
  /\ realtime.channel = "null"
  /\ Len(polling.inflight) > 0

\* ---- C3
\* C3 as stated: a signal less than 100 ms after the previous error signal
\* (counted or not) leaves the count and the mode alone, one 100 ms or more
\* after it adds exactly 1.
C3_DebounceFromPreviousSignal ==
  [][\A st \in ErrorStatuses :
        OnSubscribeStatus(st) =>
          IF now - lastSignalAt < ERROR_DEBOUNCE_MS
          THEN realtime'.errorCountRef = realtime.errorCountRef /\ connectionMode' = connectionMode
          ELSE realtime'.errorCountRef = realtime.errorCountRef + 1]_vars

\* C3 amended: the window is measured from the last counted error signal
\* (lastErrorTimestampRef; none after an acknowledgment): a signal inside it
\* leaves the count and the mode alone, a signal outside it adds exactly 1.
C3_DebounceFromLastCounted ==
  [][\A st \in ErrorStatuses :
        OnSubscribeStatus(st) =>
          IF TimeSinceLastError < ERROR_DEBOUNCE_MS
          THEN realtime'.errorCountRef = realtime.errorCountRef /\ connectionMode' = connectionMode
          ELSE realtime'.errorCountRef = realtime.errorCountRef + 1]_vars

\* a signal has been ignored: it arrived inside the window of a counted one
C3_Witness ==
  /\ realtime.lastErrorTimestampRef # 0
  /\ lastSignalAt > realtime.lastErrorTimestampRef
  /\ lastSignalAt - realtime.lastErrorTimestampRef < ERROR_DEBOUNCE_MS
  /\ realtime.errorCountRef = 1

\* ---- C4
\* C4: after a fallback the mode is never realtime with realtimeHealth healthy
\* while the re-opened subscription has not been acknowledged.
C4_NoUnverifiedHealthy ==
  ~(/\ Mode = "realtime"
    /\ connectionMode.realtimeHealth = "healthy"
    /\ realtime.errorCountRef >= MAX_ERRORS_BEFORE_FALLBACK
    /\ realtime.channel # "joined")

\* ---- C5
\* what a snapshot holds, order and row versions aside
Content(snap) ==
  [guests |-> {[id |-> snap.guests[i].id, hasVoted |-> snap.guests[i].hasVoted,
                hasPicked |-> snap.guests[i].hasPicked,
                pickedQuestionId |-> snap.guests[i].pickedQuestionId] :
                  i \in 1 .. Len(snap.guests)},
   votes |-> UNION {{<<g, snap.votes[g][i]>> : i \in 1 .. Len(snap.votes[g])} :
                      g \in DOMAIN snap.votes},
   picks |-> {snap.pickedQuestions[i].questionId : i \in 1 .. Len(snap.pickedQuestions)},
   phase |-> snap.phase,
   currentRound |-> snap.currentRound]

\* every emitted payload has been delivered and every fetch has resolved
Quiescent == fetches = {} /\ delivered = events /\ session.id # 0

\* C5: once every push event and every poll result has been applied, the
\* snapshot equals a single full reload of the final server state.
C5_Convergence == Quiescent => Content(session) = Content(loadSessionData(srv))

\* ---- C8
GuestVer(snap, id) == (CHOOSE i \in 1 .. Len(snap.guests) : snap.guests[i].id = id)

\* C8: no stored guest and no session metadata is ever overwritten by a value
\* with an older server timestamp than the value it replaces.
C8_Monotonic ==
  [][(session.id # 0 /\ session'.id # 0) =>
       /\ session'.updated_at >= session.updated_at
       /\ \A g \in DGuests :
            (HasId(session.guests, g) /\ HasId(session'.guests, g)) =>
              session'.guests[GuestVer(session', g)].ver >= session.guests[GuestVer(session, g)].ver]_vars

\* ---- C9
\* C9: the guests list of the snapshot never holds two entries with one id.
C9_UniqueGuests ==
  \A i, j \in 1 .. Len(session.guests) :
    session.guests[i].id = session.guests[j].id => i = j

\* a guest delivered by a push insert is also in a full reload that was applied
C9_Witness ==
  /\ \E e \in delivered : e.table = "guests" /\ e.eventType = "INSERT"
                          /\ HasId(session.guests, e.new.id)
                          /\ lastPollTime >= e.new.joined_at
  /\ Len(session.guests) = 2

\* ---- C6
\* C6: merging a batch into the result of merging that batch changes nothing,
\* for guests, votes and picked questions, batches with repeated identities
\* included.
C6_Idempotent ==
  (mStage = 2 /\ mKind \in {"guests", "votes", "picks"}) => mTwice = mOnce

\* a batch naming one guest twice with different values was merged twice
C6_Witness ==
  /\ mStage = 2 /\ mKind = "guests"
  /\ Len(mBatch) = 2 /\ mBatch[1].id = mBatch[2].id /\ mBatch[1] # mBatch[2]
  /\ mOnce # mState

\* ---- C7
EmptyPoll(b) ==
  /\ b.data.newGuests = <<>> /\ b.data.newVotes = <<>> /\ b.data.newPicks = <<>>
  /\ ~MetadataNewer(b.data, b.lsu)

\* C7: merging an empty batch returns the first argument's content, and an
\* incremental poll with no rows and no newer metadata leaves guests, votes,
\* picked questions, phase and round as they were.
C7_NoOp ==
  /\ (mStage >= 1 /\ mKind \in {"guests", "votes", "picks"} /\ mBatch = <<>>) => mOnce = mState
  /\ (mStage >= 1 /\ mKind = "poll" /\ EmptyPoll(mBatch)) =>
       /\ mOnce.guests = mState.guests
       /\ mOnce.votes = mState.votes
       /\ mOnce.pickedQuestions = mState.pickedQuestions
       /\ mOnce.phase = mState.phase
       /\ mOnce.currentRound = mState.currentRound

C7_Witness ==
  \/ mStage = 1 /\ mKind = "guests" /\ mBatch = <<>> /\ Len(mState) = MaxLen
  \/ mStage = 1 /\ mKind = "poll" /\ EmptyPoll(mBatch) /\ mState.guests # <<>>

\* ---- C10
ClaimedDelay(n) ==
  CASE n = 1 -> 2000 [] n = 2 -> 4000 [] n = 3 -> 8000 [] n = 4 -> 16000 [] OTHER -> 30000

\* C10: the delay scheduled after the n-th consecutive poll failure is
\* 2000, 4000, 8000, 16000, 30000 ms for n = 1..5 and 30000 ms afterwards.
C10_BackoffSequence ==
  polling.log.errors > 0 => polling.log.delay = ClaimedDelay(polling.log.errors)

C12_EndedStopsPolling ==
  [][phase' = "ended" =>
       /\ polling'.timers = {}
       /\ Len(polling'.inflight) <= Len(polling.inflight)]_vars

\* ---- C13
\* C13: while the phase of the snapshot is ended no push channel is open.
C13_EndedClosesChannel ==
  phase = "ended" => (realtime.channel = "null" /\ realtime.channels = <<>>)

\* ---- C14
\* C14: at most one poll fetch is in flight.
C14_OneFetchInFlight == Len(polling.inflight) <= 1

\* ---- C15
\* C15: a poll cycle that starts a fetch while no full reload has succeeded
\* yet starts a full reload.
C15_FullReloadUntilLoaded ==
  [][(Len(polling'.inflight) > Len(polling.inflight) /\ ~polling.log.fullLoaded) =>
       polling'.inflight[Len(polling'.inflight)].kind # "incremental"]_vars

\* ---- C16
\* C16: a poll fetch that settles while the poll scheduler is disabled changes
\* neither the phase of the snapshot nor the last-full-fetch timestamp, the
\* error count or the connection health of the scheduler.
C16_DisposedFetchDiscarded ==
  [][(PollFetchSettles /\ ~PollingEnabled(connectionMode, sessionId)) =>
       /\ phase' = phase
       /\ polling'.lastFullFetchRef = polling.lastFullFetchRef
       /\ polling'.consecutiveErrorsRef = polling.consecutiveErrorsRef
       /\ polling'.connectionHealth = polling.connectionHealth]_vars

\* ---- C17
\* C17: a call of manualRefresh with a session id set starts a full reload,
\* whatever the mode.
C17_RefreshInAnyMode ==
  [][(ManualRefresh /\ sessionId # NoSession) =>
       /\ Len(polling'.inflight) = Len(polling.inflight) + 1
       /\ polling'.inflight[Len(polling'.inflight)].kind = "manual"]_vars

\* ---- C18
Health == ReportedHealth(connectionMode, realtimeConnectionHealth(realtime),
                         polling.connectionHealth)

\* C18: the reported health is healthy with zero errors of the active
\* transport, degraded while the push subscription is connecting or with 1 or 2
\* poll errors, disconnected with more than 5 poll errors.
C18_HealthDerivation ==
  /\ Mode = "polling" =>
       /\ polling.consecutiveErrorsRef = 0 => Health = "healthy"
       /\ polling.consecutiveErrorsRef \in 1 .. 2 => Health = "degraded"
       /\ polling.consecutiveErrorsRef > 5 => Health = "disconnected"
  /\ Mode = "realtime" =>
       /\ realtime.connectionState = "CONNECTED" => Health = "healthy"
       /\ realtime.connectionState = "CONNECTING" => Health = "degraded"

VoteSet(snap, g) ==
  IF g \in DOMAIN snap.votes THEN {snap.votes[g][i] : i \in 1 .. Len(snap.votes[g])} ELSE {}

\* C20: no step of the synchronisation takes a topic id out of the vote set
\* of a guest.
C20_VotesOnlyGrow ==
  [][(session.id # 0 /\ session'.id # 0) =>
       \A g \in DGuests : VoteSet(session, g) \subseteq VoteSet(session', g)]_vars

\* ---- C21
\* C21: no step moves the phase of the snapshot to an earlier phase of the
\* order lobby, voting, topicResults, topicReveal, questionPhase, ended.
C21_PhaseMonotonic ==
  [][(session.id # 0 /\ session'.id # 0) =>
       PhaseIndex(session'.phase) >= PhaseIndex(session.phase)]_vars

\* ---- C22
\* C22: with polling enabled, another fetch attempt is started again and
\* again, and in a run in which every fetch fails the health becomes
\* disconnected and from some point on every delay scheduled is the cap of
\* 30000 ms.
C22_FailuresNeverFatal ==
  /\ []<>(Len(polling.inflight) > 0)
  /\ <>(~allFailed \/ polling.connectionHealth = "disconnected")
  /\ <>[](~allFailed \/ polling.log.delay = maxDelay)

\* ---- C23
\* C23: after mergeGuests, mergeVotes or mergePickedQuestions has returned,
\* its first argument holds what it held before the call.
C23_MergeIsPure ==
  (mStage >= 1 /\ mKind \in {"guests", "votes", "picks"}) =>
     mArgAfter = IF mStage = 1 THEN mState ELSE mOnce

\* ---- C24
\* C24: a loadSessionData call that resolves changes the snapshot only to the
\* rows of the session id that is current when it resolves, and without a
\* session id the snapshot stays null.
C24_NoStaleLoadApplied ==
  [][LoadSettles =>
       /\ snapshotOf' # snapshotOf => snapshotOf' = sessionId
       /\ sessionId = NoSession => snapshotOf' = NoSession]_vars

\* ---- C25
\* C25: every guest that has joined in the store, during a mode switch
\* included, is from some point on always in the snapshot.
C25_NoUpdateLost ==
  <>[](\A r \in srv.guests : HasId(session.guests, r.id))

\* ---- C26
\* the guests of the rows and the picks whose embedded rows are present
WellFormedIn(snap, guestRows, pickRows) ==
  /\ \A i \in 1 .. Len(guestRows) : HasId(snap.guests, guestRows[i].id)
  /\ \A i \in 1 .. Len(pickRows) :
       ~PickThrows(pickRows[i]) =>
          \E j \in 1 .. Len(snap.pickedQuestions) :
             snap.pickedQuestions[j].questionId = pickRows[i].question_id

\* C26: after a batch has been applied, by the incremental poll or by the
\* full reload, the snapshot holds the guests of the batch and its well-formed
\* picks, whether or not the batch holds a pick whose embedded row is missing.
C26_BadRowOnly ==
  /\ (mStage >= 1 /\ mKind = "pollRows") =>
        WellFormedIn(mOnce, mBatch.data.newGuests, mBatch.data.newPicks)
  /\ (mStage >= 1 /\ mKind = "loadRows") =>
        WellFormedIn(mOnce, mBatch.guestsData, mBatch.pickedData)

\* C27: picking a question is race-free: under any interleaving of concurrent
\* picks by different guests no question of the pool is recorded in
\* picked_questions twice, and a pick started while the pool has no unpicked
\* entry fails and changes no table
C27_PickRaceFree ==
  /\ [](\A i, j \in 1 .. Len(picked_questions) :
          i # j => picked_questions[i].question_id # picked_questions[j].question_id)
  /\ [][\A g \in DGuests :
          (/\ pickCalls[g].pc = "idle"
           /\ pickCalls'[g] # pickCalls[g]
           /\ NextUnpicked(question_pool) = 0)
            => /\ pickCalls'[g].result \in {"No questions available", "NO_QUESTIONS"}
               /\ UNCHANGED <<question_pool, picked_questions, guestPicked>>]_vars

\* the submit_vote_atomic calls that returned success = true
VoteSucceeded == {c \in VoteCallers : voteCalls[c].result = "success"}

\* C28: a guest votes at most once: of the submit_vote_atomic calls for one
\* guest at most one succeeds (exactly one once all have returned), the votes
\* table holds the topic ids of that call only, and the other calls add no row
C28_VoteOnce ==
  /\ Cardinality(VoteSucceeded) <= 1
  /\ \A c \in VoteSucceeded :
       votes = {voteCalls[c].topics[i] : i \in 1 .. Len(voteCalls[c].topics)}
  /\ VoteSucceeded = {} => votes = {}
  /\ (\A c \in VoteCallers : voteCalls[c].result # "none") => Cardinality(VoteSucceeded) = 1

\* the number of session_records rows with the id
RecordCount(sid) ==
  Cardinality({i \in 1 .. Len(session_records) : session_records[i] = sid})

\* C29: ending and archiving happen together: after any sequence of
\* end_session_atomic calls a session is ended with end_time set iff exactly
\* one session_records row has its id, and a call on an ended session returns
\* ALREADY_ENDED and changes no table
C29_EndAndArchiveTogether ==
  /\ [](\A sid \in DOMAIN sessions :
          (sessions[sid].phase = "ended" /\ sessions[sid].end_time) <=> RecordCount(sid) = 1)
  /\ [][\A c \in EndCallers : \A sid \in DOMAIN sessions :
          (EndSessionLock(c, sid) /\ sessions[sid].phase = "ended")
            => /\ endCalls'[c].result = "ALREADY_ENDED"
               /\ UNCHANGED <<sessions, session_records>>]_vars

\* one caller ended and archived a session, the other found it ended
C29_Witness ==
  \E c, d \in EndCallers :
    /\ endCalls[c].result = "success"
    /\ endCalls[d].result = "ALREADY_ENDED"
    /\ endCalls[d].sid = endCalls[c].sid
    /\ sessions[endCalls[c].sid].phase = "ended"
    /\ RecordCount(endCalls[c].sid) = 1

\* the view the claim names for each phase
ClaimedView ==
  [ph \in Phases |->
     CASE ph = "lobby" -> "guestLobby"
       [] ph \in {"voting", "topicResults", "topicReveal"} -> "guestVoting"
       [] ph = "questionPhase" -> "guestQuestionPhase"
       [] ph = "ended" -> "guestEnded"]

\* C30: for a guest with a synchronized session the view is the one of the
\* phase once the view-sync effect has run; the effect sets the view at most
\* once after a change, and its next run sets nothing and schedules no other
C30_ViewFollowsPhase ==
  /\ []((currentGuestId # 0 /\ hookPhase # NoPhase /\ ~syncPending)
          => view = ClaimedView[hookPhase])
  /\ [](syncUpdates <= 1)
  /\ [][(GuestViewSync /\ syncUpdates = 1) => (view' = view /\ ~syncPending')]_vars

\* a guest in the question phase after the effect has corrected the view once
C30_Witness ==
  /\ currentGuestId # 0
  /\ hookPhase = "questionPhase"
  /\ view = "guestQuestionPhase"
  /\ syncUpdates = 1
  /\ ~syncPending

\* the poll effect's last run went past its early exits
PollingOn == PollingEnabled(connectionMode, sessionId) /\ getIntervalForPhase(phase) # 0

\* C31: when the poll effect has re-run with polling disabled while a fetch of
\* the previous run was in flight, the completion of that fetch schedules no
\* poll timer: no timer is pending after the fetch has resolved
C31_NoTimerAfterDisable ==
  [][(PollFetchSettles /\ ~PollingOn /\ ~PollingOn') => polling'.timers = {}]_vars

\* C32: every failed fetch counts as a poll error: while no fetch of the poll
\* loop has succeeded, the last-full-fetch timestamp is not set, and once the
\* failed fetch has settled the consecutive error count is at least 1
C32_FailedReloadCounts ==
  allFailed =>
    /\ polling.lastFullFetchRef = NoTime
    /\ Len(polling.inflight) = 0 => polling.consecutiveErrorsRef >= 1

\* C33: a connectivity callback delivered for a subscription that has been
\* torn down changes neither the push error count nor the connection mode nor
\* the recovery timer
C33_StaleCallbackIgnored ==
  [][StaleSubscribeCallback =>
       /\ realtime'.errorCountRef = realtime.errorCountRef
       /\ connectionMode' = connectionMode
       /\ recoveryTimer' = recoveryTimer]_vars

\* C34: each entry into push mode starts with a push error count of 0: a
\* subscription that has been opened and has reported nothing yet (after the
\* mount, or after the recovery timer switched back to realtime) has count 0,
\* so that a fallback needs three counted errors of that episode
C34_EpisodeStartsAtZero ==
  realtime.channel = "joining" => realtime.errorCountRef = 0

\* C35: while the mode is polling after a fallback one recovery timer is
\* pending and it is due 30 s after the fallback, whatever polling-mode
\* notifications arrive in between
C35_RecoveryNotPostponed ==
  connectionMode.mode = "polling" =>
    /\ recoveryTimer
    /\ sinceFallback + timerLeft = RECONNECT_MS

\* C36: at most one poll timer is pending at any time, also after the poll
\* effect re-ran on a phase or session change and fetches started by the old
\* and by the new effect run completed
C36_OnePollTimer ==
  Cardinality(polling.timers) <= 1

\* a timer is pending while a poll fetch is in flight: the timer was armed by
\* the completion of a fetch of an earlier effect run, the fetch in flight is
\* the one of the current run
C36_Witness ==
  /\ Cardinality(polling.timers) = 1
  /\ \E tm \in polling.timers : tm.id = polling.timeoutRef
  /\ \E i \in 1 .. Len(polling.inflight) : polling.inflight[i].kind # "manual"

\* C37: a failed incremental poll leaves the snapshot, lastPollTime and the
\* session timestamp as they were: no row of the queries that succeeded is
\* applied
C37_FailedPollChangesNothing ==
  [][\A f \in fetches :
       (f.kind = "incremental" /\ f.failed # {} /\ f \notin fetches')
         => /\ session' = session
            /\ lastPollTime' = lastPollTime
            /\ lastSessionUpdate' = lastSessionUpdate]_vars

\* a poll is about to settle of which the votes query failed while the guests
\* query returned a row the snapshot does not hold
C37_Witness ==
  /\ session # NullSession
  /\ lastPollTime < clock
  /\ \E f \in fetches :
       /\ f.kind = "incremental"
       /\ f.failed = {"votes"}
       /\ \E i \in 1 .. Len(f.data.newGuests) : ~HasId(session.guests, f.data.newGuests[i].id)

\* C38: when a query of loadSessionData fails the snapshot stays as it was,
\* the error message is recorded and loading is false; the snapshot is only
\* ever replaced by a load whose six queries all returned
C38_LoadAllOrNothing ==
  [][/\ LdQueryFails => /\ session' = session
                        /\ error' # "null"
                        /\ loading' = FALSE
     /\ session' # session =>
          \E i \in 1 .. Len(loadCalls) :
            /\ loadCalls[i].query = 6
            /\ loadCalls' = Remove(loadCalls, i)]_vars

\* a load has failed, no call is in flight, and the store holds a guest the
\* snapshot kept from the load before does not
C38_Witness ==
  /\ error # "null"
  /\ ~loading
  /\ loadCalls = <<>>
  /\ session # NullSession
  /\ \E r \in srv.guests : ~HasId(session.guests, r.id)

\* C39: the subscribe callback maps SUBSCRIBED to an acknowledgment (push
\* error count 0, debounce timestamp 0, mode realtime) and each of
\* CHANNEL_ERROR, TIMED_OUT and CLOSED to one connection error: outside the
\* debounce window the count grows by exactly 1 and the mode is polling once
\* the count is at the threshold, inside the window the signal is ignored
C39_StatusMapping ==
  [][/\ OnSubscribeStatus("SUBSCRIBED") =>
          /\ realtime'.errorCountRef = 0
          /\ realtime'.lastErrorTimestampRef = 0
          /\ realtime'.connectionState = "CONNECTED"
          /\ connectionMode'.mode = "realtime"
     /\ \A st \in ErrorStatuses :
          OnSubscribeStatus(st) =>
            /\ realtime'.connectionState = (IF st = "CLOSED" THEN "CLOSED" ELSE "ERROR")
            /\ IF TimeSinceLastError >= ERROR_DEBOUNCE_MS
               THEN /\ realtime'.errorCountRef = realtime.errorCountRef + 1
                    /\ realtime'.lastErrorTimestampRef = now
                    /\ realtime'.errorCountRef >= MAX_ERRORS_BEFORE_FALLBACK
                         => connectionMode'.mode = "polling"
               ELSE /\ realtime'.errorCountRef = realtime.errorCountRef
                    /\ connectionMode' = connectionMode]_vars

\* an acknowledgment has arrived and after it one error signal has been
\* counted
C39_Witness ==
  /\ realtime.connectionState = "ERROR"
  /\ realtime.errorCountRef = 1
  /\ realtime.lastErrorTimestampRef = lastSignalAt
  /\ realtime.lastErrorTimestampRef > StartTime
  /\ connectionMode.mode = "realtime"
  /\ connectionMode.lastModeSwitch # NoTime

====
